---- MODULE Spec2Model ----
(***************************************************************************)
(* Model of the option registry of options.c / options.h:                  *)
(*   - the name-ordered vector OrderedOpts and the letter table ShortOpts, *)
(*     with register_option, deregister_option, find_option,               *)
(*     find_short_option and get_short_opt_names;                          *)
(*   - the value accessors get_opt_value and set_opt_value with the        *)
(*     default access policy.                                              *)
(* C arrays are 0-based; the sequences below hold slot i at index i+1.     *)
(***************************************************************************)
EXTENDS Integers, Sequences, FiniteSets, TLC

(***************************************************************************)
(* Bounds of the model.                                                    *)
(***************************************************************************)
\* Option values requested and stored range over 0..MaxValue.
MaxValue == 2
\* Results handed to res_to_ex range from MaxSkew below Result_OK to MaxSkew
\* above Result_Duplicate.
MaxSkew == 50

(***************************************************************************)
(* Program constants.                                                      *)
(***************************************************************************)
CHAR_MAX == 127
MAX_SHORT_NAMES == 1 + CHAR_MAX

\* enum accessor_e
AC_any == 8
AC_short == 9
AC_set_o == 10
AC_shopt == 11
AC_argv == 12
AC_env_shellopts == 13
AC_env_bashopts == 14
AC_unwind == 15
AC_reinit == 16
AC_unload == 17
Accessors == AC_any .. AC_unload

AccessorIsStartup(E) == E > AC_argv
AccessorIsPrivileged(E) == E > AC_unwind

OPTION_INVALID_VALUE == -1

\* enum op_result_e, by name
Results ==
  {"OK", "Unchanged", "Ignored", "NotFound", "ReadOnly", "Forbidden",
   "BadValue", "Duplicate"}

NULL == "NULL"

\* the null pointer to a filter function
NoFunc == 0

\* enum op_result_e, by value (the build without FAST_ENUM)
Result_OK == 512
Result_Unchanged == Result_OK + 1
Result_Ignored == Result_OK + 2
Result_NotFound == Result_OK + 3
Result_ReadOnly == Result_OK + 4
Result_Forbidden == Result_OK + 5
Result_BadValue == Result_OK + 6
Result_Duplicate == Result_OK + 7

\* exit statuses of the shell
EXECUTION_SUCCESS == 0
EX_BADUSAGE == 2
EX_BADASSIGN == 260

(***************************************************************************)
(* options.c: result_to_ex_map and res_to_ex.  The array has one element   *)
(* per index up to its highest designator; the elements without a          *)
(* designator are zero.                                                    *)
(***************************************************************************)
result_to_ex_map ==
  [r \in 0 .. Result_BadValue |->
     CASE r = Result_OK -> EXECUTION_SUCCESS
       [] r = Result_Unchanged -> EXECUTION_SUCCESS
       [] r = Result_Ignored -> EXECUTION_SUCCESS
       [] r = Result_NotFound -> EX_BADUSAGE
       [] r = Result_ReadOnly -> EX_BADUSAGE
       [] r = Result_Forbidden -> EX_BADASSIGN
       [] r = Result_BadValue -> EX_BADASSIGN
       [] OTHER -> 0]

\* variant: the array has an entry for every member of the enumeration, the
\* one of Duplicate being EX_BADUSAGE
res_to_ex_whole_enum(r) ==
  IF r < Result_OK \/ r >= Result_Duplicate + 1 THEN -1
  ELSE IF r = Result_Duplicate THEN EX_BADUSAGE
  ELSE result_to_ex_map[r]

\* variant: only the upper end of the array is guarded
res_to_ex_upper_guard_only(r) ==
  IF r < 0 \/ r >= Result_BadValue + 1 THEN -1 ELSE result_to_ex_map[r]

res_to_ex(r) ==
  IF r < Result_OK \/ r >= Result_BadValue + 1 THEN -1 ELSE result_to_ex_map[r]

(***************************************************************************)
(* options.h: GoodResult and BadResult                                     *)
(***************************************************************************)
\* variant: only OK is a good result
GoodResult_ok_only(r) == r = Result_OK

GoodResult(r) == r <= Result_Ignored

BadResult(r) == ~GoodResult(r)

(***************************************************************************)
(* The option definitions of the model: the objects that callers pass to   *)
(* register_option.  A definition is identified by its address (the key of *)
(* DefTable); names are strings of character codes and letters are         *)
(* character codes, 0 meaning "no letter".                                 *)
(*   D1  "a"  'f'   like noglob: adjust_shellopts, hide_shopt              *)
(*   D2  "a"  'n'   takes D1's name; like auto_factorize (store on)        *)
(*   D3  "b"  'f'   takes D1's letter                                      *)
(*   D4  "ab"       name only, like verbose_factorize                      *)
(*   D5       'Z'   letter only                                            *)
(***************************************************************************)
Defs == {"D1", "D2", "D3", "D4", "D5"}

opt_def(hasName, name, letter, sh, ba, hs, hb, st) ==
  [hasName |-> hasName, name |-> name, letter |-> letter,
   adjust_shellopts |-> sh, adjust_bashopts |-> ba,
   hide_set_o |-> hs, hide_shopt |-> hb, store0 |-> st]

DefTable ==
  [d \in Defs |->
     CASE d = "D1" -> opt_def(TRUE, <<97>>, 102, TRUE, FALSE, FALSE, TRUE, 0)
       [] d = "D2" -> opt_def(TRUE, <<97>>, 110, FALSE, TRUE, TRUE, FALSE, 1)
       [] d = "D3" -> opt_def(TRUE, <<98>>, 102, TRUE, FALSE, FALSE, TRUE, 0)
       [] d = "D4" -> opt_def(TRUE, <<97, 98>>, 0, FALSE, TRUE, TRUE, FALSE, 0)
       [] d = "D5" -> opt_def(FALSE, <<>>, 90, FALSE, FALSE, FALSE, FALSE, 0)]

Names == {DefTable[d].name : d \in {e \in Defs : DefTable[e].hasName}}
Letters == {DefTable[d].letter : d \in Defs} \ {0}

VARIABLES
  OrderedOpts,  \* [defs, cap, len]: the od_vec_t of registered named options
  ShortOpts,    \* [enumeration, map]; map holds the occupied slots of the
                \* letter table, every other slot of 0 .. CHAR_MAX is null (see
                \* MapAt); the fields count, min and max of the
                \* struct are left out: count is written and never read, min
                \* and max are set afresh by get_short_opt_names before it
                \* reads them
  store,        \* the storage cell of each definition (d->store[0])
  SHELLOPTS,    \* value of the shell variable SHELLOPTS (a string of character codes)
  BASHOPTS,     \* value of the shell variable BASHOPTS
  live,         \* definitions registered by their owner and not deregistered since
  last,         \* the last registry call: its operation, argument and result,
                \* whether the argument was live and what the call changed
  fault,        \* the process has run into undefined behaviour and is gone
  optdef,       \* set_opt_value: the definition being accessed
  cell,         \* set_opt_value: its storage cell
  call,         \* set_opt_value: the arguments of the call, and what the
                \* definition's own get_func / set_func do when called
  lastSet,      \* the last call of set_opt_value / get_opt_value and what it did
  status,       \* res_to_ex: the result handed in and the exit status handed back
  env,          \* the shell variables SHELLOPTS and BASHOPTS as the variable
                \* table holds them (present, imported, shape), and where
                \* the shell is between synchronising and importing them
  shell,        \* the globals of flags.c and shell.c that the setters and
                \* which_set_flags read, and the flags saved by
                \* get_current_flags
  out           \* what the last listing, count or iteration has produced,
                \* and the iterator in use

vars ==
  <<OrderedOpts, ShortOpts, store, SHELLOPTS, BASHOPTS, live, last,
    fault, optdef, cell, call, lastSet, status, env, shell, out>>

regvars == <<OrderedOpts, ShortOpts, store, SHELLOPTS, BASHOPTS, live, last, fault>>
setvars == <<optdef, cell, call, lastSet>>
flagvars == <<shell, out>>
auxvars == <<status, env, flagvars>>

(***************************************************************************)
(* Helpers for C data.                                                     *)
(***************************************************************************)
\* size_t arithmetic wraps; the model keeps 16 bits of it, which is all the
\* indices of the model need.
SIZE_MOD == 65536

\* x | y on non-negative integers
RECURSIVE BitOr(_, _)
BitOr(x, y) ==
  IF x = 0 THEN y
  ELSE IF y = 0 THEN x
  ELSE (IF x % 2 = 1 \/ y % 2 = 1 THEN 1 ELSE 0) + 2 * BitOr(x \div 2, y \div 2)

\* strcmp on strings of character codes: negative, zero or positive
RECURSIVE strcmp(_, _)
strcmp(a, b) ==
  IF a = <<>> /\ b = <<>> THEN 0
  ELSE IF a = <<>> THEN -1
  ELSE IF b = <<>> THEN 1
  ELSE IF Head(a) # Head(b) THEN Head(a) - Head(b)
  ELSE strcmp(Tail(a), Tail(b))

\* OrderedOpts.defs[i]
Slot(oo, i) == oo.defs[i + 1]

(***************************************************************************)
(* options.c: search_options, find_option, find_short_option               *)
(***************************************************************************)
RECURSIVE search_loop(_, _, _, _)
search_loop(name, oo, left, right) ==
  IF left < right
    THEN LET mid == (left + right) \div 2
             res == strcmp(name, DefTable[Slot(oo, mid)].name)
         IN  IF res < 0 THEN search_loop(name, oo, left, mid)
             ELSE IF res > 0 THEN search_loop(name, oo, mid + 1, right)
             ELSE [match |-> TRUE, index |-> mid]
    ELSE [match |-> FALSE, index |-> left]

search_options(name, oo) == search_loop(name, oo, 0, oo.len)

find_option(name, oo) ==
  LET S == search_options(name, oo)
  IN  IF S.match THEN Slot(oo, S.index) ELSE NULL

\* ShortOpts.map[c], for c in 0 .. CHAR_MAX
MapAt(map, c) == IF c \in DOMAIN map THEN map[c] ELSE NULL

\* ShortOpts.map[c] = def, def not null
MapSet(map, c, def) ==
  [x \in DOMAIN map \cup {c} |-> IF x = c THEN def ELSE map[x]]

find_short_option(letter, so) == MapAt(so.map, letter)

(***************************************************************************)
(* options.c: resize_vector and the growth step of register_option         *)
(***************************************************************************)
resize_vector(oo, new_cap, logscale) ==
  LET cap == IF logscale THEN BitOr(oo.cap * 2, new_cap) ELSE new_cap
  IN  [oo EXCEPT !.cap = cap,
                 !.defs = [i \in 1 .. cap |->
                             IF i <= oo.cap THEN oo.defs[i] ELSE "UNINIT"]]

\* variant: the vector grows to the requested size, without the doubling
make_room_exact(oo) ==
  IF oo.len >= oo.cap
    THEN LET r == resize_vector(oo, oo.len + 1, FALSE)
         IN  [r EXCEPT !.defs = [i \in 1 .. r.cap |->
                                   IF i - 1 >= oo.len THEN NULL ELSE r.defs[i]]]
    ELSE oo

make_room(oo) ==
  IF oo.len >= oo.cap
    THEN LET r == resize_vector(oo, oo.len + 1, TRUE)
         IN  [r EXCEPT !.defs = [i \in 1 .. r.cap |->
                                   IF i - 1 >= oo.len THEN NULL ELSE r.defs[i]]]
    ELSE oo

\* variant: the newcomer goes behind the last entry, wherever the search
\* pointed
insert_at_end(oo, index, def) ==
  [oo EXCEPT !.len = oo.len + 1,
             !.defs = [i \in 1 .. oo.cap |->
                         IF i - 1 = oo.len THEN def ELSE oo.defs[i]]]

\* memmove (defs+index+1, defs+index, len-index); ++len; defs[index] = def
insert_at(oo, index, def) ==
  [oo EXCEPT !.len = oo.len + 1,
             !.defs = [i \in 1 .. oo.cap |->
                         IF i - 1 = index THEN def
                         ELSE IF i - 1 > index /\ i - 1 <= oo.len THEN oo.defs[i - 1]
                         ELSE oo.defs[i]]]

(***************************************************************************)
(* options.c: register_option                                              *)
(***************************************************************************)
name_check(def, oo) ==
  IF DefTable[def].hasName
    THEN LET S == search_options(DefTable[def].name, oo)
         IN  [S |-> S,
              dup |-> S.match /\ Slot(oo, S.index) # def,
              reloading |-> S.match /\ Slot(oo, S.index) = def]
    ELSE [S |-> [match |-> FALSE, index |-> 0], dup |-> FALSE, reloading |-> FALSE]

\* variant: a taken letter is handed over to the newcomer instead of being
\* refused
letter_check_replacing(def, so) ==
  [dup |-> FALSE,
   reloading |-> DefTable[def].letter # 0 /\ MapAt(so.map, DefTable[def].letter) = def,
   c |-> DefTable[def].letter]

letter_check(def, so) ==
  LET c == DefTable[def].letter
      old == IF c # 0 THEN MapAt(so.map, c) ELSE NULL
  IN  [dup |-> c # 0 /\ old # NULL /\ old # def,
       reloading |-> c # 0 /\ old = def,
       c |-> IF c # 0 /\ old # NULL THEN 0 ELSE c]

add_letter(so, c, def) ==
  IF c # 0
    THEN [so EXCEPT !.map = MapSet(so.map, c, def),
                    !.enumeration = [null |-> TRUE, str |-> <<>>]]
    ELSE so

register_option(def, oo, so) ==
  LET N == name_check(def, oo)
      L == letter_check(def, so)
  IN  IF N.dup \/ L.dup
        THEN [res |-> "Duplicate", oo |-> oo, so |-> so]
      ELSE IF N.reloading /\ L.reloading
        THEN [res |-> "Unchanged", oo |-> oo, so |-> so]
      ELSE LET grown == make_room(oo)
               named == IF DefTable[def].hasName /\ ~N.S.match
                          THEN insert_at(grown, N.S.index, def)
                          ELSE grown
           IN  [res |-> "OK", oo |-> named, so |-> add_letter(so, L.c, def)]

(***************************************************************************)
(* options.c: deregister_letter, deregister_name (QUICK_DEREGISTER is not  *)
(* defined anywhere, so the #else branches are the program)                *)
(***************************************************************************)
\* The statement executed on a matching slot is "*dd == NULL;": a comparison
\* whose value is discarded.  The slot keeps its content.
cleared_slot(old) == old

\* the loop over c = 0 .. MAX_SHORT_NAMES-1, all its iterations at once
deregister_letter(def, so) ==
  LET hits == {c \in 0 .. MAX_SHORT_NAMES - 1 : MapAt(so.map, c) = def}
      count == Cardinality(hits)
  IN  [res |-> IF count = 1 THEN "OK" ELSE "BadValue",
       so |-> [so EXCEPT !.map = [c \in DOMAIN so.map |->
                           IF c \in hits THEN cleared_slot(so.map[c])
                           ELSE so.map[c]]]]

\* variant: the length is decremented and the tail is not moved down
remove_at_no_move(oo, i) == [oo EXCEPT !.len = oo.len - 1]

\* --len; if (len > i) memmove (defs+i, defs+i+1, len-i)
remove_at(oo, i) ==
  LET len == oo.len - 1
  IN  [oo EXCEPT !.len = len,
                 !.defs = [k \in 1 .. oo.cap |->
                             IF k - 1 >= i /\ k - 1 < len THEN oo.defs[k + 1]
                             ELSE oo.defs[k]]]

\* variant: an entry is removed when it carries the name of def, whoever
\* registered it
RECURSIVE name_loop_by_name(_, _, _, _)
name_loop_by_name(def, oo, i, count) ==
  IF i < oo.len
    THEN LET R == IF DefTable[def].hasName
                     /\ DefTable[Slot(oo, i)].name = DefTable[def].name
                    THEN name_loop_by_name(def, remove_at(oo, i), i, count + 1)
                    ELSE name_loop_by_name(def, oo, i + 1, count)
         IN  [R EXCEPT !.seen = <<Slot(oo, i)>> \o R.seen]
    ELSE [res |-> IF count > 0 THEN "OK" ELSE "BadValue", oo |-> oo, seen |-> <<>>]

\* variant: the index is not stepped back after a removal
RECURSIVE name_loop_no_step_back(_, _, _, _)
name_loop_no_step_back(def, oo, i, count) ==
  IF i < oo.len
    THEN LET R == IF Slot(oo, i) = def
                    THEN name_loop_no_step_back(def, remove_at(oo, i),
                                                (i + 1) % SIZE_MOD, count + 1)
                    ELSE name_loop_no_step_back(def, oo, (i + 1) % SIZE_MOD, count)
         IN  [R EXCEPT !.seen = <<Slot(oo, i)>> \o R.seen]
    ELSE [res |-> IF count > 0 THEN "OK" ELSE "BadValue", oo |-> oo, seen |-> <<>>]

\* the loop from index i on; seen lists the content of the slot that each
\* evaluation of "OrderedOpts.defs[i] == def" reads, in the order of the reads
RECURSIVE name_loop(_, _, _, _)
name_loop(def, oo, i, count) ==
  IF i < oo.len
    THEN LET R == IF Slot(oo, i) = def
                    THEN LET dec == (i + SIZE_MOD - 1) % SIZE_MOD  \* --i, a size_t
                         IN  name_loop(def, remove_at(oo, i),
                                       (dec + 1) % SIZE_MOD, count + 1)
                    ELSE name_loop(def, oo, (i + 1) % SIZE_MOD, count)
         IN  [R EXCEPT !.seen = <<Slot(oo, i)>> \o R.seen]
    ELSE [res |-> IF count > 0 THEN "OK" ELSE "BadValue", oo |-> oo, seen |-> <<>>]

deregister_name(def, oo) == name_loop(def, oo, 0, 0)

(***************************************************************************)
(* options.c: get_opt_value for the definitions of DefTable (each has a    *)
(* store and no get_func), hide_check_for, set_env_from_options            *)
(***************************************************************************)
get_opt_value_of(d, st) == IF d = NULL THEN OPTION_INVALID_VALUE ELSE st[d]

hidden_for(why, d) ==
  CASE why = AC_set_o -> DefTable[d].hide_set_o
    [] why = AC_shopt -> DefTable[d].hide_shopt
    [] why = AC_short -> DefTable[d].letter = 0
    [] why = AC_env_bashopts -> ~DefTable[d].adjust_bashopts
    [] why = AC_env_shellopts -> ~DefTable[d].adjust_shellopts
    [] OTHER -> FALSE

RECURSIVE env_loop(_, _, _, _)
env_loop(oo, st, why, i) ==
  IF i < oo.len
    THEN LET d == Slot(oo, i)
             rest == env_loop(oo, st, why, i + 1)
         IN  IF d = NULL \/ hidden_for(why, d) \/ get_opt_value_of(d, st) <= 0
               THEN rest
               ELSE DefTable[d].name \o <<58>> \o rest
    ELSE <<>>

\* variant: the trailing colon stays
set_env_from_options_keep_colon(oo, st, why) == env_loop(oo, st, why, 0)

\* the value bound to the variable: the names joined by ':', the trailing
\* colon cut off
set_env_from_options(oo, st, why) ==
  LET value == env_loop(oo, st, why, 0)
  IN  IF Len(value) > 0 THEN SubSeq(value, 1, Len(value) - 1) ELSE value

set_shellopts(oo, st) == set_env_from_options(oo, st, AC_set_o)
set_bashopts(oo, st) == set_env_from_options(oo, st, AC_shopt)

(***************************************************************************)
(* options.c: deregister_option                                            *)
(***************************************************************************)
\* variant: the variables are regenerated before the name is removed
deregister_option_sync_first(def, oo, so, st, sh, ba) ==
  LET L == deregister_letter(def, so)
      N == deregister_name(def, oo)
      regen == (DefTable[def].adjust_shellopts \/ DefTable[def].adjust_bashopts)
               /\ get_opt_value_of(def, st) # 0
  IN  [res |-> "OK", oo |-> N.oo, so |-> L.so, seen |-> N.seen,
       sh |-> IF regen /\ DefTable[def].adjust_shellopts
                THEN set_shellopts(oo, st) ELSE sh,
       ba |-> IF regen /\ DefTable[def].adjust_bashopts
                THEN set_bashopts(oo, st) ELSE ba]

deregister_option(def, oo, so, st, sh, ba) ==
  LET L == deregister_letter(def, so)
      N == deregister_name(def, oo)
      regen == (DefTable[def].adjust_shellopts \/ DefTable[def].adjust_bashopts)
               /\ get_opt_value_of(def, st) # 0
  IN  [res |-> "OK", oo |-> N.oo, so |-> L.so, seen |-> N.seen,
       sh |-> IF regen /\ DefTable[def].adjust_shellopts
                THEN set_shellopts(N.oo, st) ELSE sh,
       ba |-> IF regen /\ DefTable[def].adjust_bashopts
                THEN set_bashopts(N.oo, st) ELSE ba]

(***************************************************************************)
(* options.c: get_short_opt_names                                          *)
(***************************************************************************)
\* the second loop: c ascends from ShortOpts.max (just set to 0) and every
\* occupied slot appends its letter
RECURSIVE ascending(_)
ascending(S) ==
  IF S = {} THEN <<>>
  ELSE LET c == CHOOSE x \in S : \A y \in S : x <= y
       IN  <<c>> \o ascending(S \ {c})

letters_from(map, from) ==
  ascending({c \in from .. MAX_SHORT_NAMES - 1 : MapAt(map, c) # NULL})

\* The scan for ShortOpts.min increments a char from 1 while it is below
\* 1+CHAR_MAX and the slot is empty.  A char never reaches 1+CHAR_MAX: with
\* no letter in the table the counter wraps and the scan reads below the
\* table, which is undefined.
scan_is_undefined(so) == \A c \in 1 .. CHAR_MAX : MapAt(so.map, c) = NULL

get_short_opt_names(so) ==
  IF ~so.enumeration.null
    THEN [ret |-> so.enumeration.str, so |-> so]
    ELSE LET str == letters_from(so.map, 0)
         IN  [ret |-> str,
              so |-> [so EXCEPT !.enumeration = [null |-> FALSE, str |-> str]]]

(***************************************************************************)
(* options.c: get_opt_value and set_opt_value on one definition.  The      *)
(* definition is a record of the fields the accessors read; got is what    *)
(* get_func returns when the definition has one.                           *)
(***************************************************************************)
Values == 0 .. MaxValue

\* new_value is an option_value_t like any other: callers can ask for the
\* sentinel too
Requests == Values \cup {OPTION_INVALID_VALUE}

get_opt_value(d, c, got) ==
  IF d.get_func THEN got
  ELSE IF d.store THEN c
  ELSE OPTION_INVALID_VALUE

\* variant: forbid_change is looked at before readonly
default_policy_forbid_first(d, why, new_value, old_value) ==
  IF d.forbid_change /\ ~AccessorIsStartup(why)
    THEN IF new_value = old_value THEN "Unchanged"
         ELSE IF d.ignore_change THEN "Ignored"
         ELSE "Forbidden"
  ELSE IF d.readonly /\ ~AccessorIsPrivileged(why) THEN "ReadOnly"
  ELSE IF d.ignore_change THEN "Ignored"
  ELSE "OK"

\* variant: ignore_change is looked at before the values are compared
default_policy_ignore_first(d, why, new_value, old_value) ==
  IF d.readonly /\ ~AccessorIsPrivileged(why) THEN "ReadOnly"
  ELSE IF d.forbid_change /\ ~AccessorIsStartup(why)
    THEN IF d.ignore_change THEN "Ignored"
         ELSE IF new_value = old_value THEN "Unchanged"
         ELSE "Forbidden"
  ELSE IF d.ignore_change THEN "Ignored"
  ELSE "OK"

\* variant: ignore_change gives way to the privileged accessors
default_policy_ignore_unprivileged(d, why, new_value, old_value) ==
  IF d.readonly /\ ~AccessorIsPrivileged(why) THEN "ReadOnly"
  ELSE IF d.forbid_change /\ ~AccessorIsStartup(why)
    THEN IF new_value = old_value THEN "Unchanged"
         ELSE IF d.ignore_change THEN "Ignored"
         ELSE "Forbidden"
  ELSE IF d.ignore_change /\ ~AccessorIsPrivileged(why) THEN "Ignored"
  ELSE "OK"

\* the default policy of set_opt_value, up to the write
default_policy(d, why, new_value, old_value) ==
  IF d.readonly /\ ~AccessorIsPrivileged(why) THEN "ReadOnly"
  ELSE IF d.forbid_change /\ ~AccessorIsStartup(why)
    THEN IF new_value = old_value THEN "Unchanged"
         ELSE IF d.ignore_change THEN "Ignored"
         ELSE "Forbidden"
  ELSE IF d.ignore_change THEN "Ignored"
  ELSE "OK"

\* "d->adjust_shellopts && d->store[0] != new_value" reads through d->store
\* whenever an adjust bit is set, before d->store is tested
reads_null_store(d) == ~d.store /\ (d.adjust_shellopts \/ d.adjust_bashopts)

\* the write and the notifications of the default policy
default_write(d, c, new_value) ==
  [cell |-> IF d.store THEN new_value ELSE c,
   shellopts |-> d.adjust_shellopts /\ c # new_value,
   bashopts |-> d.adjust_bashopts /\ c # new_value]

\* variant: the variables are regenerated after every good result
delegated_set_good_result(d, r, c2) ==
  [res |-> r, cell |-> c2,
   shellopts |-> r \in {"OK", "Unchanged", "Ignored"} /\ d.adjust_shellopts,
   bashopts |-> r \in {"OK", "Unchanged", "Ignored"} /\ d.adjust_bashopts]

\* with a set_func: the setter decides the result r and leaves c2 in the cell
delegated_set(d, r, c2) ==
  [res |-> r, cell |-> c2,
   shellopts |-> r = "OK" /\ d.adjust_shellopts,
   bashopts |-> r = "OK" /\ d.adjust_bashopts]

(***************************************************************************)
(* set_opt_value on the definitions of DefTable.  Their access-control     *)
(* bits: D3 is forbid_change, the others are unrestricted; all have a      *)
(* store and neither get_func nor set_func.                                *)
(***************************************************************************)
Policy(d) ==
  [set_func |-> FALSE, get_func |-> FALSE, store |-> TRUE, readonly |-> FALSE,
   forbid_change |-> d = "D3", ignore_change |-> FALSE,
   adjust_shellopts |-> DefTable[d].adjust_shellopts,
   adjust_bashopts |-> DefTable[d].adjust_bashopts]

\* variant: the variables are regenerated before the store is written
set_opt_value_sync_first(d, why, new_value, oo, st, sh, ba) ==
  LET res == default_policy(Policy(d), why, new_value,
                            get_opt_value(Policy(d), st[d], 0))
      W == default_write(Policy(d), st[d], new_value)
  IN  IF res # "OK"
        THEN [res |-> res, st |-> st, sh |-> sh, ba |-> ba,
              shellopts |-> FALSE, bashopts |-> FALSE]
        ELSE [res |-> "OK", st |-> [st EXCEPT ![d] = W.cell],
              sh |-> IF W.shellopts THEN set_shellopts(oo, st) ELSE sh,
              ba |-> IF W.bashopts THEN set_bashopts(oo, st) ELSE ba,
              shellopts |-> W.shellopts, bashopts |-> W.bashopts]

set_opt_value(d, why, new_value, oo, st, sh, ba) ==
  LET res == default_policy(Policy(d), why, new_value,
                            get_opt_value(Policy(d), st[d], 0))
      W == default_write(Policy(d), st[d], new_value)
      st2 == [st EXCEPT ![d] = W.cell]
  IN  IF res # "OK"
        THEN [res |-> res, st |-> st, sh |-> sh, ba |-> ba,
              shellopts |-> FALSE, bashopts |-> FALSE]
        ELSE [res |-> "OK", st |-> st2,
              sh |-> IF W.shellopts THEN set_shellopts(oo, st2) ELSE sh,
              ba |-> IF W.bashopts THEN set_bashopts(oo, st2) ELSE ba,
              shellopts |-> W.shellopts, bashopts |-> W.bashopts]

(***************************************************************************)
(* options.c: get_options_from_env.  extract_colon_unit hands out the      *)
(* pieces of the text between colons, one per call, and NULL at the end of *)
(* the text.                                                               *)
(***************************************************************************)
RECURSIVE colon_units(_)
colon_units(text) ==
  IF text = <<>> THEN <<>>
  ELSE LET colons == {i \in 1 .. Len(text) : text[i] = 58}
       IN  IF colons = {} THEN <<text>>
           ELSE LET i == CHOOSE x \in colons : \A y \in colons : x <= y
                IN  <<SubSeq(text, 1, i - 1)>>
                      \o colon_units(SubSeq(text, i + 1, Len(text)))

\* variant: the scan ends at the first name that is not registered
RECURSIVE import_loop_stopping(_, _, _, _, _)
import_loop_stopping(units, why, filter, oo, S) ==
  IF units = <<>> THEN S
  ELSE LET d == find_option(Head(units), oo)
       IN  IF d = NULL THEN S
           ELSE IF hidden_for(filter, d) \/ hidden_for(why, d)
             THEN import_loop_stopping(Tail(units), why, filter, oo, S)
           ELSE LET R == set_opt_value(d, why, 1, oo, S.st, S.sh, S.ba)
                IN  import_loop_stopping(Tail(units), why, filter, oo,
                                         [st |-> R.st, sh |-> R.sh, ba |-> R.ba])

\* the loop over the units; S is [st, sh, ba]: the stores and the two
\* variables, which set_opt_value may regenerate on the way
RECURSIVE import_loop(_, _, _, _, _)
import_loop(units, why, filter, oo, S) ==
  IF units = <<>> THEN S
  ELSE LET d == find_option(Head(units), oo)
       IN  IF d = NULL \/ hidden_for(filter, d) \/ hidden_for(why, d)
             THEN import_loop(Tail(units), why, filter, oo, S)
           ELSE LET R == set_opt_value(d, why, 1, oo, S.st, S.sh, S.ba)
                IN  import_loop(Tail(units), why, filter, oo,
                                [st |-> R.st, sh |-> R.sh, ba |-> R.ba])

\* the variable is read when it was imported and is an array or an
\* associative array; a scalar variable makes the function return
reads_variable(attrs) ==
  attrs.imported /\ ~(attrs.kind # "array" /\ attrs.kind # "assoc")

get_options_from_env(attrs, text, why, filter, oo, st, sh, ba) ==
  IF reads_variable(attrs)
    THEN import_loop(colon_units(text), why, filter, oo,
                     [st |-> st, sh |-> sh, ba |-> ba])
    ELSE [st |-> st, sh |-> sh, ba |-> ba]

(***************************************************************************)
(* options.c: list_all_options and the show functions.  A line of output   *)
(* is recorded as the definition it shows, the letter or name printed and  *)
(* whether it is printed as on.                                            *)
(***************************************************************************)
DS_on_off == 16
DS_short == DS_on_off + 1
DS_set_o == DS_on_off + 2
DS_shopt == DS_on_off + 3

FLAG_ON == 45
FLAG_OFF == 43

bool_to_flag(b) == IF b # 0 THEN FLAG_ON ELSE FLAG_OFF

\* a filter function is named by the accessor it belongs to; NoFunc is no
\* filter
hide_check_for(why) ==
  IF why \in {AC_set_o, AC_shopt, AC_short, AC_env_bashopts, AC_env_shellopts}
    THEN why ELSE NoFunc

\* hidden && hidden (d)
hides(hidden, d) == hidden # NoFunc /\ hidden_for(hidden, d)

\* hide_value_mask & ((uintmax_t)1U << value), for a value of 0 or more
value_bit(hide_value_mask, value) == (hide_value_mask \div (2 ^ value)) % 2 = 1

\* what show_how prints for d
show_line(d, st, display_style) ==
  LET value == get_opt_value_of(d, st)
  IN  [def |-> d,
       key |-> IF display_style = DS_short THEN <<DefTable[d].letter>>
               ELSE DefTable[d].name,
       on |-> IF display_style \in {DS_short, DS_set_o}
                THEN bool_to_flag(value) = FLAG_ON
                ELSE value # 0]

\* the three tests of the loop body: d is shown when none of them skips it
shows(d, st, why, hide_value_mask, display_style) ==
  /\ ~hides(hide_check_for(why), d)
  /\ ~(IF display_style = DS_short THEN DefTable[d].letter = 0
       ELSE ~DefTable[d].hasName)
  /\ ~(hide_value_mask # 0 /\ value_bit(hide_value_mask, get_opt_value_of(d, st)))

RECURSIVE list_loop(_, _, _, _, _, _)
list_loop(oo, st, why, hide_value_mask, display_style, i) ==
  IF i < oo.len
    THEN LET d == Slot(oo, i)
             rest == list_loop(oo, st, why, hide_value_mask, display_style, i + 1)
         IN  IF d # NULL /\ shows(d, st, why, hide_value_mask, display_style)
               THEN <<show_line(d, st, display_style)>> \o rest
               ELSE rest
    ELSE <<>>

list_all_options(oo, st, why, hide_value_mask, display_style) ==
  list_loop(oo, st, why, hide_value_mask, display_style, 0)

\* what show_one_option_unless_value prints: the line of d when the test of
\* its if statement is true, and nothing otherwise
show_one_option_unless_value(d, st, why, hide_value_mask, display_style) ==
  IF value_bit(hide_value_mask, get_opt_value_of(d, st))
    THEN <<show_line(d, st, display_style)>>
    ELSE <<>>

\* Built without NDEBUG, bool_to_flag (b) is bool_to_flag (VB (b)), and
\* ValidateBool ends the process when b is neither 0 nor 1.
validation_fails(oo, st, why, hide_value_mask, display_style) ==
  /\ display_style \in {DS_short, DS_set_o}
  /\ \E i \in 0 .. oo.len - 1 :
       /\ Slot(oo, i) # NULL
       /\ shows(Slot(oo, i), st, why, hide_value_mask, display_style)
       /\ get_opt_value_of(Slot(oo, i), st) \notin {0, 1}

(***************************************************************************)
(* options.c: begin_iter_opts, get_iter_opts, count_options,               *)
(* count_options_func                                                      *)
(***************************************************************************)
begin_iter_opts(hide_if) == [position |-> 0, hide_if |-> hide_if]

\* variant: the iteration ends at the first definition that is hidden
get_iter_opts_ending_at_hidden(it, oo) ==
  IF it.position < oo.len
    THEN LET d == Slot(oo, it.position)
             next == [it EXCEPT !.position = it.position + 1]
         IN  IF d # NULL /\ ~hides(it.hide_if, d) THEN [d |-> d, it |-> next]
             ELSE [d |-> NULL, it |-> next]
    ELSE [d |-> NULL, it |-> it]

\* variant: the iteration runs to the capacity of the vector
RECURSIVE get_iter_opts_to_cap(_, _)
get_iter_opts_to_cap(it, oo) ==
  IF it.position < oo.cap
    THEN LET d == Slot(oo, it.position)
             next == [it EXCEPT !.position = it.position + 1]
         IN  IF d = NULL THEN get_iter_opts_to_cap(next, oo)
             ELSE IF ~hides(it.hide_if, d) THEN [d |-> d, it |-> next]
             ELSE get_iter_opts_to_cap(next, oo)
    ELSE [d |-> NULL, it |-> it]

RECURSIVE get_iter_opts(_, _)
get_iter_opts(it, oo) ==
  IF it.position < oo.len
    THEN LET d == Slot(oo, it.position)
             next == [it EXCEPT !.position = it.position + 1]
         IN  IF d = NULL THEN get_iter_opts(next, oo)
             ELSE IF ~hides(it.hide_if, d) THEN [d |-> d, it |-> next]
             ELSE get_iter_opts(next, oo)
    ELSE [d |-> NULL, it |-> it]

count_options(oo) == oo.len

count_options_func(fn, oo) ==
  IF fn = NoFunc THEN count_options(oo)
  ELSE Cardinality({i \in 0 .. oo.len - 1 :
                      Slot(oo, i) # NULL /\ ~hides(fn, Slot(oo, i))})

(***************************************************************************)
(* flags.c: the setters of noexec and restricted, and their definitions.   *)
(* The store of each definition is the global the setter writes, so the    *)
(* value of the global is the storage cell.                                *)
(***************************************************************************)
\* variant: the code that is compiled out: the value is written, an
\* interactive shell puts 0 in its place, and the result is OK
set_read_but_dont_execute_original(why, new_value, old, interactive_shell) ==
  [res |-> "OK", cell |-> IF interactive_shell THEN 0 ELSE new_value]

set_read_but_dont_execute(why, new_value, old, interactive_shell) ==
  IF interactive_shell /\ new_value # 0
    THEN [res |-> "Ignored", cell |-> old]
    ELSE [res |-> "OK", cell |-> new_value]

\* maybe_make_restricted changes no option and is left out
set_restricted(why, new_value, old, interactive_shell) ==
  IF old # 0 /\ new_value = 0 /\ ~AccessorIsPrivileged(why)
    THEN [res |-> "Forbidden", cell |-> old]
    ELSE [res |-> "OK", cell |-> new_value]

OPTDEF_read_but_dont_execute ==
  [set_func |-> TRUE, get_func |-> FALSE, store |-> TRUE, readonly |-> FALSE,
   forbid_change |-> FALSE, ignore_change |-> FALSE,
   adjust_shellopts |-> TRUE, adjust_bashopts |-> FALSE, name |-> "noexec"]

OPTDEF_restricted ==
  [set_func |-> TRUE, get_func |-> FALSE, store |-> TRUE, readonly |-> FALSE,
   forbid_change |-> FALSE, ignore_change |-> FALSE,
   adjust_shellopts |-> TRUE, adjust_bashopts |-> FALSE, name |-> "restricted"]

\* d->set_func (d, why, new_value)
set_func(d, why, new_value, old, interactive_shell) ==
  IF d.name = "noexec"
    THEN set_read_but_dont_execute(why, new_value, old, interactive_shell)
    ELSE set_restricted(why, new_value, old, interactive_shell)

(***************************************************************************)
(* flags.c: which_set_flags, get_current_flags, set_current_flags          *)
(***************************************************************************)
\* an option_value_t stored into a char (a signed one)
to_char(v) == ((v + 128) % 256) - 128

which_set_flags(so, st, want_pending_command, read_from_stdin) ==
  LET N == get_short_opt_names(so)
      set == SelectSeq(N.ret,
                       LAMBDA letter :
                         get_opt_value_of(find_short_option(letter, N.so), st) # 0)
  IN  [ret |-> set \o (IF want_pending_command # 0 THEN <<99>> ELSE <<>>)
                   \o (IF read_from_stdin # 0 THEN <<115>> ELSE <<>>),
       so |-> N.so]

get_current_flags(so, st) ==
  LET N == get_short_opt_names(so)
  IN  [ret |-> [i \in 1 .. Len(N.ret) |->
                  to_char(get_opt_value_of(find_short_option(N.ret[i], N.so), st))],
       so |-> N.so]

\* the loop of set_current_flags from index i on; S is [st, sh, ba]
RECURSIVE restore_loop(_, _, _, _, _, _, _)
restore_loop(option_letters, bitmap, why, i, oo, so, S) ==
  IF i > Len(option_letters) THEN S
  ELSE LET d == find_short_option(option_letters[i], so)
       IN  IF d = NULL
             THEN restore_loop(option_letters, bitmap, why, i + 1, oo, so, S)
           ELSE LET R == set_opt_value(d, why, bitmap[i], oo, S.st, S.sh, S.ba)
                IN  restore_loop(option_letters, bitmap, why, i + 1, oo, so,
                                 [st |-> R.st, sh |-> R.sh, ba |-> R.ba])

\* variant: the values are written back on behalf of the user
set_current_flags_as_user(bitmap, oo, so, st, sh, ba) ==
  LET N == get_short_opt_names(so)
      S == restore_loop(N.ret, bitmap, AC_short, 1, oo, N.so,
                        [st |-> st, sh |-> sh, ba |-> ba])
  IN  [st |-> S.st, sh |-> S.sh, ba |-> S.ba, so |-> N.so]

\* set_current_flags (bitmap) for a bitmap that is not null
set_current_flags(bitmap, oo, so, st, sh, ba) ==
  LET N == get_short_opt_names(so)
      S == restore_loop(N.ret, bitmap, AC_unwind, 1, oo, N.so,
                        [st |-> st, sh |-> sh, ba |-> ba])
  IN  [st |-> S.st, sh |-> S.sh, ba |-> S.ba, so |-> N.so]

(***************************************************************************)
(* Initial state: nothing registered, the variables of the shell unset.    *)
(***************************************************************************)
NoDef ==
  [set_func |-> FALSE, get_func |-> FALSE, store |-> TRUE, readonly |-> FALSE,
   forbid_change |-> FALSE, ignore_change |-> FALSE,
   adjust_shellopts |-> FALSE, adjust_bashopts |-> FALSE]

OptDefs ==
  [set_func : BOOLEAN, get_func : BOOLEAN, store : BOOLEAN, readonly : BOOLEAN,
   forbid_change : BOOLEAN, ignore_change : BOOLEAN,
   adjust_shellopts : BOOLEAN, adjust_bashopts : BOOLEAN]

NoCall ==
  [op |-> "none", why |-> AC_any, new_value |-> 0, old_value |-> 0,
   before |-> 0, res |-> "OK", shellopts |-> FALSE, bashopts |-> FALSE,
   value |-> 0]

\* the record of a registry call that leaves oo and so behind
Called(op, d, res, names, oo, so) ==
  [op |-> op, def |-> d, res |-> res, names |-> names,
   wasLive |-> d \in live,
   changedNames |-> oo.len # OrderedOpts.len
                    \/ \E i \in 1 .. oo.len : oo.defs[i] # OrderedOpts.defs[i],
   changedLetters |-> so.map # ShortOpts.map]

InitRegistry ==
  /\ OrderedOpts = [defs |-> <<>>, cap |-> 0, len |-> 0]
  /\ ShortOpts = [enumeration |-> [null |-> TRUE, str |-> <<>>],
                  map |-> <<>>]
  /\ store = [d \in Defs |-> DefTable[d].store0]
  /\ SHELLOPTS = <<>>
  /\ BASHOPTS = <<>>
  /\ live = {}
  /\ last = Called("init", NULL, "OK", <<>>, OrderedOpts, ShortOpts)
  /\ fault = FALSE

NoArgs == [why |-> AC_any, new_value |-> 0, got |-> 0, res |-> "OK", writes |-> FALSE]

\* a call of set_opt_value: the accessor and the value asked for, what
\* get_func returns (when the policy consults it), and the result and the
\* effect on the cell of set_func (when there is one)
Calls(d) ==
  [why : Accessors,
   new_value : Requests,
   got : IF d.get_func /\ ~d.set_func THEN Values ELSE {0},
   res : IF d.set_func THEN Results ELSE {"OK"},
   writes : IF d.set_func THEN BOOLEAN ELSE {FALSE}]

VarNames == {"SHELLOPTS", "BASHOPTS"}

NoStatus ==
  [r |-> Result_OK, done |-> FALSE, ex |-> 0,
   tested |-> FALSE, good |-> FALSE, bad |-> FALSE]

\* a non-interactive shell with no flags saved and no setter called
NoShell ==
  [interactive_shell |-> FALSE, first |-> 0, calls |-> 0,
   want_pending_command |-> 0, read_from_stdin |-> 0,
   phase |-> "run", bitmap |-> <<>>, before |-> [d \in Defs |-> 0], touched |-> {},
   saved |-> <<>>]

\* nothing listed, counted or iterated yet
NoOut ==
  [op |-> "none", why |-> AC_any, mask |-> 0, style |-> 0, lines |-> <<>>,
   fn |-> NoFunc, count |-> 0, it |-> [position |-> 0, hide_if |-> NoFunc],
   yielded |-> <<>>, nulls |-> 0, begins |-> 0, def |-> NULL]

NoEnv ==
  [phase |-> "run", which |-> "SHELLOPTS", on |-> {}, read |-> "SHELLOPTS",
   text |-> <<>>, why |-> AC_any, filter |-> AC_any,
   before |-> [d \in Defs |-> 0],
   attrs |-> [v \in VarNames |-> [imported |-> FALSE, kind |-> "scalar"]]]

Init ==
  /\ InitRegistry
  /\ optdef = NoDef
  /\ cell = 0
  /\ call = NoArgs
  /\ lastSet = NoCall
  /\ status = NoStatus
  /\ env = NoEnv
  /\ shell = NoShell
  /\ out = NoOut

InitSet ==
  /\ InitRegistry
  /\ optdef \in OptDefs
  /\ cell \in (IF optdef.store THEN Values ELSE {0})
  /\ call \in Calls(optdef)
  /\ lastSet = NoCall
  /\ status = NoStatus
  /\ env = NoEnv
  /\ shell = NoShell
  /\ out = NoOut

\* the registry after register_option has been called for the definitions
\* of ds, one after the other
RECURSIVE RegisterAll(_, _)
RegisterAll(ds, S) ==
  IF ds = <<>> THEN S
  ELSE LET R == register_option(Head(ds), S.oo, S.so)
       IN  RegisterAll(Tail(ds),
                       [oo |-> R.oo, so |-> R.so,
                        live |-> IF R.res = "OK" THEN S.live \cup {Head(ds)}
                                 ELSE S.live])

\* the orders in which the shell and its loadable builtins have registered
\* their options when the environment is synchronised or imported; in the
\* last one D1 is refused, its letter being D3's
Registrations ==
  {<<"D1", "D4">>, <<"D2", "D3", "D4", "D5">>, <<"D3", "D1", "D4">>}

\* what a variable of the shell can be: made by the shell itself, inherited
\* from the environment, or inherited and then turned into an array
VarAttrs ==
  {[imported |-> FALSE, kind |-> "scalar"], [imported |-> TRUE, kind |-> "scalar"],
   [imported |-> TRUE, kind |-> "array"], [imported |-> TRUE, kind |-> "assoc"]}

\* texts that the read of a variable can yield: "", "a", "b:zz", "zz:ab:a"
EnvTexts ==
  {<<>>, <<97>>, <<98, 58, 122, 122>>, <<122, 122, 58, 97, 98, 58, 97>>}

\* The options have been registered and set_opt_value has left values in
\* the stores of the named ones; SHELLOPTS and BASHOPTS are either not yet
\* generated or generated from these values.
InitEnv ==
  /\ \E ds \in Registrations :
       LET R == RegisterAll(ds, [oo |-> [defs |-> <<>>, cap |-> 0, len |-> 0],
                                so |-> [enumeration |-> [null |-> TRUE, str |-> <<>>],
                                        map |-> <<>>],
                                live |-> {}])
       IN  /\ OrderedOpts = R.oo
           /\ ShortOpts = R.so
           /\ live = R.live
  /\ store \in [Defs -> Values]
  /\ \A d \in Defs :
       (d \notin live \/ ~DefTable[d].hasName) => store[d] = DefTable[d].store0
  /\ \E synced \in BOOLEAN :
       /\ SHELLOPTS = IF synced THEN set_shellopts(OrderedOpts, store) ELSE <<>>
       /\ BASHOPTS = IF synced THEN set_bashopts(OrderedOpts, store) ELSE <<>>
  /\ last = Called("init", NULL, "OK", <<>>, OrderedOpts, ShortOpts)
  /\ fault = FALSE
  /\ optdef = NoDef
  /\ cell = 0
  /\ call = NoArgs
  /\ lastSet = NoCall
  /\ status = NoStatus
  /\ env = NoEnv
  /\ shell = NoShell
  /\ out = NoOut

\* The options have been registered, in one of the orders of Registrations,
\* and set_opt_value has left values in the stores of the registered ones.
InitList ==
  /\ \E ds \in Registrations :
       LET R == RegisterAll(ds, [oo |-> [defs |-> <<>>, cap |-> 0, len |-> 0],
                                so |-> [enumeration |-> [null |-> TRUE, str |-> <<>>],
                                        map |-> <<>>],
                                live |-> {}])
       IN  /\ OrderedOpts = R.oo
           /\ ShortOpts = R.so
           /\ live = R.live
  /\ store \in [Defs -> Values]
  /\ \A d \in Defs : d \notin live => store[d] = DefTable[d].store0
  /\ SHELLOPTS = set_shellopts(OrderedOpts, store)
  /\ BASHOPTS = set_bashopts(OrderedOpts, store)
  /\ last = Called("init", NULL, "OK", <<>>, OrderedOpts, ShortOpts)
  /\ fault = FALSE
  /\ optdef = NoDef
  /\ cell = 0
  /\ call = NoArgs
  /\ lastSet = NoCall
  /\ status = NoStatus
  /\ env = NoEnv
  /\ shell = NoShell
  /\ out = NoOut

\* noexec or restricted, on or off, in an interactive or a non-interactive
\* shell
InitSetters ==
  /\ InitRegistry
  /\ optdef \in {OPTDEF_read_but_dont_execute, OPTDEF_restricted}
  /\ cell \in {0, 1}
  /\ call = NoArgs
  /\ lastSet = NoCall
  /\ status = NoStatus
  /\ env = NoEnv
  /\ \E i \in BOOLEAN : shell = [NoShell EXCEPT !.interactive_shell = i, !.first = cell]
  /\ out = NoOut

\* The options have been registered and the lettered ones have their values.
InitFlags ==
  /\ \E ds \in Registrations :
       LET R == RegisterAll(ds, [oo |-> [defs |-> <<>>, cap |-> 0, len |-> 0],
                                so |-> [enumeration |-> [null |-> TRUE, str |-> <<>>],
                                        map |-> <<>>],
                                live |-> {}])
       IN  /\ OrderedOpts = R.oo
           /\ ShortOpts = R.so
           /\ live = R.live
  /\ store \in [Defs -> Values]
  /\ \A d \in Defs :
       (d \notin live \/ DefTable[d].letter = 0) => store[d] = DefTable[d].store0
  /\ SHELLOPTS = set_shellopts(OrderedOpts, store)
  /\ BASHOPTS = set_bashopts(OrderedOpts, store)
  /\ last = Called("init", NULL, "OK", <<>>, OrderedOpts, ShortOpts)
  /\ fault = FALSE
  /\ optdef = NoDef
  /\ cell = 0
  /\ call = NoArgs
  /\ lastSet = NoCall
  /\ status = NoStatus
  /\ env = NoEnv
  /\ shell = NoShell
  /\ out = NoOut

\* the results handed to res_to_ex
ResultInputs == (Result_OK - MaxSkew) .. (Result_Duplicate + MaxSkew)

InitRes ==
  /\ InitRegistry
  /\ optdef = NoDef
  /\ cell = 0
  /\ call = NoArgs
  /\ lastSet = NoCall
  /\ status \in [r : ResultInputs, done : {FALSE}, ex : {0},
                  tested : {FALSE}, good : {FALSE}, bad : {FALSE}]
  /\ env = NoEnv
  /\ shell = NoShell
  /\ out = NoOut

(***************************************************************************)
(* Actions of the registry.                                                *)
(***************************************************************************)

Register(d) ==
  /\ ~fault
  /\ LET R == register_option(d, OrderedOpts, ShortOpts)
     IN  /\ OrderedOpts' = R.oo
         /\ ShortOpts' = R.so
         /\ live' = IF R.res \in {"OK", "Unchanged"} THEN live \cup {d} ELSE live
         /\ last' = Called("register", d, R.res, <<>>, R.oo, R.so)
  /\ UNCHANGED <<store, SHELLOPTS, BASHOPTS, fault, setvars, auxvars>>

Deregister(d) ==
  /\ ~fault
  /\ LET R == deregister_option(d, OrderedOpts, ShortOpts, store, SHELLOPTS, BASHOPTS)
     IN  /\ OrderedOpts' = R.oo
         /\ ShortOpts' = R.so
         /\ SHELLOPTS' = R.sh
         /\ BASHOPTS' = R.ba
         /\ last' = Called("deregister", d, R.res, <<>>, R.oo, R.so)
  /\ live' = live \ {d}
  /\ UNCHANGED <<store, fault, setvars, auxvars>>

\* deregister_option (d), the record of the call listing in names the slots
\* that the loop of deregister_name has examined
DeregisterExamined(d) ==
  /\ ~fault
  /\ LET R == deregister_option(d, OrderedOpts, ShortOpts, store, SHELLOPTS, BASHOPTS)
     IN  /\ OrderedOpts' = R.oo
         /\ ShortOpts' = R.so
         /\ SHELLOPTS' = R.sh
         /\ BASHOPTS' = R.ba
         /\ last' = Called("deregister", d, R.res, R.seen, R.oo, R.so)
  /\ live' = live \ {d}
  /\ UNCHANGED <<store, fault, setvars, auxvars>>

GetShortOptNames ==
  /\ ~fault
  /\ ~ShortOpts.enumeration.null \/ ~scan_is_undefined(ShortOpts)
  /\ LET R == get_short_opt_names(ShortOpts)
     IN  /\ ShortOpts' = R.so
         /\ last' = Called("names", NULL, "OK", R.ret, OrderedOpts, R.so)
  /\ UNCHANGED <<OrderedOpts, store, SHELLOPTS, BASHOPTS, live, fault, setvars,
                 auxvars>>

\* get_short_opt_names with an empty table and no cached string: the scan
\* runs off the table.  Either it meets a non-zero word at some negative
\* index and the call goes on to return a fresh, cached, empty string, or
\* the process faults or never leaves the scan.
GetShortOptNamesUndefined ==
  /\ ~fault
  /\ ShortOpts.enumeration.null /\ scan_is_undefined(ShortOpts)
  /\ \/ /\ LET R == get_short_opt_names(ShortOpts)
              IN  /\ ShortOpts' = R.so
                  /\ last' = Called("names", NULL, "OK", R.ret, OrderedOpts, R.so)
        /\ UNCHANGED fault
     \/ /\ fault' = TRUE
        /\ UNCHANGED <<ShortOpts, last>>
  /\ UNCHANGED <<OrderedOpts, store, SHELLOPTS, BASHOPTS, live, setvars, auxvars>>

(***************************************************************************)
(* Actions of the value accessor: set_opt_value (optdef, call.why,          *)
(* call.new_value), one action per path through the function.              *)
(***************************************************************************)
Notify(sh, ba) ==
  /\ SHELLOPTS' = IF sh THEN set_shellopts(OrderedOpts, store) ELSE SHELLOPTS
  /\ BASHOPTS' = IF ba THEN set_bashopts(OrderedOpts, store) ELSE BASHOPTS

Returned(old, res, sh, ba) ==
  [op |-> "set", why |-> call.why, new_value |-> call.new_value,
   old_value |-> old, before |-> cell, res |-> res,
   shellopts |-> sh, bashopts |-> ba, value |-> 0]

\* a definition with a set_func
SetDelegated ==
  /\ ~fault /\ lastSet.op = "none"
  /\ optdef.set_func
  /\ LET R == delegated_set(optdef, call.res,
                            IF call.writes THEN call.new_value ELSE cell)
     IN  /\ cell' = R.cell
         /\ lastSet' = Returned(cell, R.res, R.shellopts, R.bashopts)
         /\ Notify(R.shellopts, R.bashopts)
  /\ UNCHANGED <<OrderedOpts, ShortOpts, store, live, last, fault, optdef, call,
                 auxvars>>

\* no set_func, and the policy stops the request
SetRefused ==
  /\ ~fault /\ lastSet.op = "none"
  /\ ~optdef.set_func
  /\ LET old == get_opt_value(optdef, cell, call.got)
         res == default_policy(optdef, call.why, call.new_value, old)
     IN  /\ res # "OK"
         /\ lastSet' = Returned(old, res, FALSE, FALSE)
  /\ UNCHANGED <<regvars, optdef, cell, call, auxvars>>

\* no set_func, and the policy lets the request through
SetApplied ==
  /\ ~fault /\ lastSet.op = "none"
  /\ ~optdef.set_func
  /\ ~reads_null_store(optdef)
  /\ LET old == get_opt_value(optdef, cell, call.got)
         W == default_write(optdef, cell, call.new_value)
     IN  /\ default_policy(optdef, call.why, call.new_value, old) = "OK"
         /\ cell' = W.cell
         /\ lastSet' = Returned(old, "OK", W.shellopts, W.bashopts)
         /\ Notify(W.shellopts, W.bashopts)
  /\ UNCHANGED <<OrderedOpts, ShortOpts, store, live, last, fault, optdef, call,
                 auxvars>>

\* the same for a definition with an adjust bit and no store: the read of
\* d->store[0] goes through a null pointer and the process is lost
SetThroughNullStore ==
  /\ ~fault /\ lastSet.op = "none"
  /\ ~optdef.set_func
  /\ reads_null_store(optdef)
  /\ default_policy(optdef, call.why, call.new_value,
                    get_opt_value(optdef, cell, call.got)) = "OK"
  /\ fault' = TRUE
  /\ UNCHANGED <<OrderedOpts, ShortOpts, store, SHELLOPTS, BASHOPTS, live, last,
                 optdef, cell, call, lastSet, auxvars>>

\* set_opt_value (NULL, why, new_value): no definition was found
SetAbsent ==
  /\ ~fault /\ lastSet.op = "none"
  /\ lastSet' = [Returned(OPTION_INVALID_VALUE, "NotFound", FALSE, FALSE)
                   EXCEPT !.op = "set_null"]
  /\ UNCHANGED <<regvars, optdef, cell, call, auxvars>>

\* get_opt_value (optdef, why), before or after the set_opt_value
GetValue ==
  /\ ~fault /\ lastSet.op \in {"none", "set"}
  /\ lastSet' = [lastSet EXCEPT !.op = "get", !.before = cell,
                                !.value = get_opt_value(optdef, cell, call.got)]
  /\ UNCHANGED <<regvars, optdef, cell, call, auxvars>>

\* get_opt_value (NULL, why)
GetAbsent ==
  /\ ~fault /\ lastSet.op = "none"
  /\ lastSet' = [lastSet EXCEPT !.op = "get_null",
                                !.value = get_opt_value_of(NULL, store)]
  /\ UNCHANGED <<regvars, optdef, cell, call, auxvars>>

(***************************************************************************)
(* Actions of the environment synchroniser, on a registry that holds       *)
(* definitions of DefTable.                                                *)
(***************************************************************************)
\* the registered definitions that the variable lists: those which pass
\* the filter of the variable and are on
Registered == {Slot(OrderedOpts, i) : i \in 0 .. OrderedOpts.len - 1} \ {NULL}

OnIn(which) ==
  {d \in Registered :
     /\ ~hidden_for(IF which = "SHELLOPTS" THEN AC_set_o ELSE AC_shopt, d)
     /\ get_opt_value_of(d, store) > 0}

\* set_opt_value (find_option (name), why, v), as the builtins call it
SetValue(name, why, v) ==
  /\ ~fault /\ env.phase = "run"
  /\ find_option(name, OrderedOpts) # NULL
  /\ LET d == find_option(name, OrderedOpts)
         R == set_opt_value(d, why, v, OrderedOpts, store, SHELLOPTS, BASHOPTS)
     IN  /\ store' = R.st
         /\ SHELLOPTS' = R.sh
         /\ BASHOPTS' = R.ba
         /\ last' = Called("set", d, R.res, <<>>, OrderedOpts, ShortOpts)
         /\ lastSet' = [op |-> "set", why |-> why, new_value |-> v,
                        old_value |-> store[d], before |-> store[d],
                        res |-> R.res, shellopts |-> R.shellopts,
                        bashopts |-> R.bashopts, value |-> 0]
  /\ env' = [env EXCEPT !.phase = "done"]
  /\ UNCHANGED <<OrderedOpts, ShortOpts, live, fault, optdef, cell, call, status,
                 flagvars>>

\* set_shellopts () or set_bashopts ()
Synchronize(which) ==
  /\ ~fault /\ env.phase = "run"
  /\ SHELLOPTS' = IF which = "SHELLOPTS" THEN set_shellopts(OrderedOpts, store)
                  ELSE SHELLOPTS
  /\ BASHOPTS' = IF which = "BASHOPTS" THEN set_bashopts(OrderedOpts, store)
                 ELSE BASHOPTS
  /\ last' = Called("sync", NULL, "OK", <<>>, OrderedOpts, ShortOpts)
  /\ env' = [env EXCEPT !.phase = "synced", !.which = which, !.on = OnIn(which)]
  /\ UNCHANGED <<OrderedOpts, ShortOpts, store, live, fault, setvars, status,
                 flagvars>>

\* a new shell starts with the environment of this one: it registers the
\* same options, every option is off, and the two variables come to it from
\* the environment, as imported scalar variables
Startup ==
  /\ ~fault /\ env.phase = "synced"
  /\ store' = [d \in Defs |-> 0]
  /\ last' = Called("startup", NULL, "OK", <<>>, OrderedOpts, ShortOpts)
  /\ env' = [env EXCEPT !.phase = "started",
                        !.attrs = [v \in VarNames |->
                                     [imported |-> TRUE, kind |-> "scalar"]]]
  /\ UNCHANGED <<OrderedOpts, ShortOpts, SHELLOPTS, BASHOPTS, live, fault,
                 setvars, status, flagvars>>

\* get_options_from_env (which, why, filter, quiet).  What find_variable
\* returns is attrs: the variable as the new shell inherited it, or else
\* any variable of that name.  The value cell of a scalar variable is its
\* text; the value cell of an array or associative array is not a string,
\* and what savestring copies from it is any text.
Import(which, why, filter) ==
  /\ ~fault /\ env.phase \in {"run", "started"}
  /\ \E attrs \in (IF env.phase = "started" THEN {env.attrs[which]} ELSE VarAttrs) :
     \E text \in (IF attrs.kind = "scalar"
                    THEN {IF which = "SHELLOPTS" THEN SHELLOPTS ELSE BASHOPTS}
                    ELSE EnvTexts) :
       LET R == get_options_from_env(attrs, text, why, filter,
                                     OrderedOpts, store, SHELLOPTS, BASHOPTS)
       IN  /\ store' = R.st
           /\ SHELLOPTS' = R.sh
           /\ BASHOPTS' = R.ba
           /\ env' = [env EXCEPT
                        !.phase = IF env.phase = "started" THEN "imported" ELSE "done",
                        !.attrs = [env.attrs EXCEPT ![which] = attrs],
                        !.read = which, !.text = text, !.why = why,
                        !.filter = filter, !.before = store]
  /\ last' = Called("import", NULL, "OK", <<>>, OrderedOpts, ShortOpts)
  /\ UNCHANGED <<OrderedOpts, ShortOpts, live, fault, setvars, status, flagvars>>

\* deregister_option (d) by the module that registered d, once
Unload(d) ==
  /\ env.phase = "run" /\ last.op = "init"
  /\ Deregister(d)

(***************************************************************************)
(* Actions of the listing, the counts and the iterator, on a registry that *)
(* nothing registers into or deregisters from meanwhile.                   *)
(***************************************************************************)
\* the filters a caller hands to begin_iter_opts and count_options_func
HideFuncs ==
  {NoFunc, AC_set_o, AC_shopt, AC_short, AC_env_bashopts, AC_env_shellopts}

\* the contexts, masks (none, bit of 0, bit of 1, bits of 1 and 2) and styles
\* with which list_all_options is called
ListContexts == {AC_any, AC_short, AC_set_o, AC_shopt}
ListMasks == {0, 1, 2, 6}
ListStyles == {DS_on_off, DS_short, DS_set_o, DS_shopt}

\* how often get_iter_opts is called again after it has returned NULL, and
\* how many iterations are begun
MaxNulls == 2
MaxBegins == 2

\* list_all_options (why, hide_value_mask, display_style) running to its end
ListAll(why, hide_value_mask, display_style) ==
  /\ ~fault /\ out.op = "none"
  /\ out' = [out EXCEPT !.op = "list", !.why = why, !.mask = hide_value_mask,
                        !.style = display_style,
                        !.lines = list_all_options(OrderedOpts, store, why,
                                                   hide_value_mask, display_style)]
  /\ UNCHANGED <<regvars, setvars, status, env, shell>>

\* the same in a build with the validation, on a value that is not a bool
ListAllAborted(why, hide_value_mask, display_style) ==
  /\ ~fault /\ out.op = "none"
  /\ validation_fails(OrderedOpts, store, why, hide_value_mask, display_style)
  /\ fault' = TRUE
  /\ out' = [out EXCEPT !.op = "list_aborted", !.why = why,
                        !.mask = hide_value_mask, !.style = display_style]
  /\ UNCHANGED <<OrderedOpts, ShortOpts, store, SHELLOPTS, BASHOPTS, live, last,
                 setvars, status, env, shell>>

\* show_one_option_unless_value (d, why, hide_value_mask, display_style) for
\* a registered d that has the kind of name the style prints and, in the
\* styles that print a flag, a value that is a bool
ShowOneUnless(d, why, hide_value_mask, display_style) ==
  /\ ~fault /\ out.op = "none"
  /\ d \in live
  /\ IF display_style = DS_short THEN DefTable[d].letter # 0 ELSE DefTable[d].hasName
  /\ display_style \in {DS_short, DS_set_o} => get_opt_value_of(d, store) \in {0, 1}
  /\ out' = [out EXCEPT !.op = "show", !.def = d, !.why = why,
                        !.mask = hide_value_mask, !.style = display_style,
                        !.lines = show_one_option_unless_value(
                                    d, store, why, hide_value_mask, display_style)]
  /\ UNCHANGED <<regvars, setvars, status, env, shell>>

\* count_options_func (fn); count_options () is count_options_func (NULL)
CountOptions(fn) ==
  /\ ~fault /\ out.op = "none"
  /\ out' = [out EXCEPT !.op = "count", !.fn = fn,
                        !.count = count_options_func(fn, OrderedOpts)]
  /\ UNCHANGED <<regvars, setvars, status, env, shell>>

\* it = begin_iter_opts (fn), for the first time or to start over
BeginIter(fn) ==
  /\ ~fault /\ out.op \in {"none", "iter"} /\ out.begins < MaxBegins
  /\ out' = [out EXCEPT !.op = "iter", !.fn = fn, !.it = begin_iter_opts(fn),
                        !.yielded = <<>>, !.nulls = 0, !.begins = out.begins + 1]
  /\ UNCHANGED <<regvars, setvars, status, env, shell>>

\* d = get_iter_opts (&it)
GetIter ==
  /\ ~fault /\ out.op = "iter" /\ out.nulls < MaxNulls
  /\ LET R == get_iter_opts(out.it, OrderedOpts)
     IN  out' = [out EXCEPT !.it = R.it,
                            !.yielded = IF R.d = NULL THEN out.yielded
                                        ELSE Append(out.yielded, R.d),
                            !.nulls = IF R.d = NULL THEN out.nulls + 1 ELSE 0]
  /\ UNCHANGED <<regvars, setvars, status, env, shell>>

\* deregister_option (d) for a registered d while an iteration is open
DeregisterDuringIter(d) ==
  /\ out.op = "iter" /\ d \in live
  /\ Deregister(d)

(***************************************************************************)
(* Actions of flags.c: the setters through set_opt_value, and the flags    *)
(* of `$-` read, saved and restored.                                       *)
(***************************************************************************)
\* how many calls of set_opt_value are followed
MaxCalls == 2

\* set_opt_value (&OPTDEF_..., why, new_value) on noexec or restricted
SetFlagOption(why, new_value) ==
  /\ ~fault /\ shell.calls < MaxCalls
  /\ LET F == set_func(optdef, why, new_value, cell, shell.interactive_shell)
         R == delegated_set(optdef, F.res, F.cell)
     IN  /\ cell' = R.cell
         /\ lastSet' = [op |-> "set", why |-> why, new_value |-> new_value,
                        old_value |-> cell, before |-> cell, res |-> R.res,
                        shellopts |-> R.shellopts, bashopts |-> R.bashopts,
                        value |-> 0]
         /\ Notify(R.shellopts, R.bashopts)
  /\ shell' = [shell EXCEPT !.calls = shell.calls + 1]
  /\ UNCHANGED <<OrderedOpts, ShortOpts, store, live, last, fault, optdef, call,
                 status, env, out>>

\* deregister_option (d) by the module that registered d, before any of the
\* calls below
UnloadFirst(d) ==
  /\ shell.phase = "run" /\ out.op = "none"
  /\ Unload(d)

\* which_set_flags (), with the two globals as the shell has them just then
WhichSetFlags(want_pending_command, read_from_stdin) ==
  /\ ~fault /\ out.op = "none" /\ shell.phase = "run"
  /\ ~ShortOpts.enumeration.null \/ ~scan_is_undefined(ShortOpts)
  /\ LET R == which_set_flags(ShortOpts, store, want_pending_command, read_from_stdin)
     IN  /\ ShortOpts' = R.so
         /\ out' = [out EXCEPT !.op = "flags", !.lines = R.ret]
  /\ shell' = [shell EXCEPT !.want_pending_command = want_pending_command,
                            !.read_from_stdin = read_from_stdin]
  /\ UNCHANGED <<OrderedOpts, store, SHELLOPTS, BASHOPTS, live, last, fault,
                 setvars, status, env>>

\* bitmap = get_current_flags (), on entry to a scope
GetCurrentFlags ==
  /\ ~fault /\ out.op = "none" /\ last.op = "init" /\ shell.phase = "run"
  /\ ~ShortOpts.enumeration.null \/ ~scan_is_undefined(ShortOpts)
  /\ LET R == get_current_flags(ShortOpts, store)
     IN  /\ ShortOpts' = R.so
         /\ shell' = [shell EXCEPT
                        !.phase = "saved", !.bitmap = R.ret, !.before = store,
                        !.saved = [i \in 1 .. Len(R.so.enumeration.str) |->
                                     find_short_option(R.so.enumeration.str[i], R.so)]]
  /\ UNCHANGED <<OrderedOpts, store, SHELLOPTS, BASHOPTS, live, last, fault,
                 setvars, status, env, out>>

\* set_opt_value (find_short_option (letter), why, v) inside the scope
SetInScope(letter, why, v) ==
  /\ ~fault /\ out.op = "none" /\ shell.phase = "saved" /\ shell.calls < MaxCalls
  /\ find_short_option(letter, ShortOpts) # NULL
  /\ LET d == find_short_option(letter, ShortOpts)
         R == set_opt_value(d, why, v, OrderedOpts, store, SHELLOPTS, BASHOPTS)
     IN  /\ store' = R.st
         /\ SHELLOPTS' = R.sh
         /\ BASHOPTS' = R.ba
         /\ shell' = [shell EXCEPT
                        !.calls = shell.calls + 1,
                        !.touched = IF R.st[d] # shell.before[d]
                                      THEN shell.touched \cup {d}
                                      ELSE shell.touched]
  /\ UNCHANGED <<OrderedOpts, ShortOpts, live, last, fault, setvars, status, env,
                 out>>

\* how many elements set_current_flags reads behind the terminator of a
\* bitmap: it reads one element per letter of the enumeration it finds
overrun(bitmap, so) == Len(get_short_opt_names(so).ret) - (Len(bitmap) + 1)

\* set_current_flags (bitmap), on leaving the scope; the reads stay within
\* the bitmap and its terminator
SetCurrentFlags ==
  /\ ~fault /\ out.op = "none" /\ shell.phase = "saved"
  /\ ~ShortOpts.enumeration.null \/ ~scan_is_undefined(ShortOpts)
  /\ overrun(shell.bitmap, ShortOpts) <= 0
  /\ LET R == set_current_flags(shell.bitmap \o <<0>>, OrderedOpts, ShortOpts, store,
                                SHELLOPTS, BASHOPTS)
     IN  /\ store' = R.st
         /\ SHELLOPTS' = R.sh
         /\ BASHOPTS' = R.ba
         /\ ShortOpts' = R.so
  /\ shell' = [shell EXCEPT !.phase = "restored"]
  /\ UNCHANGED <<OrderedOpts, live, last, fault, setvars, status, env, out>>

\* the same when the enumeration has become longer than that: the reads
\* behind the terminator are undefined; they fault, or yield whatever char
\* lies there
SetCurrentFlagsOverrun ==
  /\ ~fault /\ out.op = "none" /\ shell.phase = "saved"
  /\ overrun(shell.bitmap, ShortOpts) > 0
  /\ \/ /\ \E behind \in [1 .. overrun(shell.bitmap, ShortOpts) -> Values] :
             LET R == set_current_flags(shell.bitmap \o <<0>> \o behind, OrderedOpts,
                                        ShortOpts, store, SHELLOPTS, BASHOPTS)
             IN  /\ store' = R.st
                 /\ SHELLOPTS' = R.sh
                 /\ BASHOPTS' = R.ba
                 /\ ShortOpts' = R.so
        /\ shell' = [shell EXCEPT !.phase = "restored"]
        /\ UNCHANGED fault
     \/ /\ fault' = TRUE
        /\ UNCHANGED <<store, SHELLOPTS, BASHOPTS, ShortOpts, shell>>
  /\ UNCHANGED <<OrderedOpts, live, last, setvars, status, env, out>>

\* register_option (d) by a module loaded inside the scope
RegisterInScope(d) ==
  /\ out.op = "none" /\ shell.phase = "saved" /\ shell.calls < MaxCalls
  /\ ~fault
  /\ LET R == register_option(d, OrderedOpts, ShortOpts)
     IN  /\ OrderedOpts' = R.oo
         /\ ShortOpts' = R.so
         /\ live' = IF R.res \in {"OK", "Unchanged"} THEN live \cup {d} ELSE live
         /\ last' = Called("register", d, R.res, <<>>, R.oo, R.so)
  /\ shell' = [shell EXCEPT !.calls = shell.calls + 1]
  /\ UNCHANGED <<store, SHELLOPTS, BASHOPTS, fault, setvars, status, env, out>>

\* deregister_option (d) by a module unloaded inside the scope
DeregisterInScope(d) ==
  /\ out.op = "none" /\ shell.phase = "saved" /\ shell.calls < MaxCalls
  /\ ~fault /\ d \in live
  /\ LET R == deregister_option(d, OrderedOpts, ShortOpts, store, SHELLOPTS, BASHOPTS)
     IN  /\ OrderedOpts' = R.oo
         /\ ShortOpts' = R.so
         /\ SHELLOPTS' = R.sh
         /\ BASHOPTS' = R.ba
         /\ last' = Called("deregister", d, R.res, <<>>, R.oo, R.so)
  /\ live' = live \ {d}
  /\ shell' = [shell EXCEPT !.calls = shell.calls + 1]
  /\ UNCHANGED <<store, fault, setvars, status, env, out>>

(***************************************************************************)
(* res_to_ex applied to status.r                                           *)
(***************************************************************************)
ResToEx ==
  /\ ~status.done
  /\ status' = [status EXCEPT !.done = TRUE, !.ex = res_to_ex(status.r)]
  /\ UNCHANGED <<regvars, setvars, env, flagvars>>

\* the tests a caller makes on a result: GoodResult (r) and BadResult (r)
TestResult ==
  /\ ~status.tested
  /\ status' = [status EXCEPT !.tested = TRUE,
                              !.good = GoodResult(status.r),
                              !.bad = BadResult(status.r)]
  /\ UNCHANGED <<regvars, setvars, env, flagvars>>

(***************************************************************************)
(* Specifications.                                                         *)
(***************************************************************************)
Next ==
  \/ \E d \in Defs : Register(d)
  \/ \E d \in Defs : Deregister(d)
  \/ GetShortOptNames
  \/ GetShortOptNamesUndefined

Spec == Init /\ [][Next]_vars

NextSet ==
  \/ SetDelegated
  \/ SetRefused
  \/ SetApplied
  \/ SetThroughNullStore
  \/ SetAbsent
  \/ GetValue
  \/ GetAbsent

SpecSet == InitSet /\ [][NextSet]_vars

\* the accessors with which the environment is imported, and the filters
\* that callers pass (AC_any stands for no filter)
ImportContexts == {AC_set_o, AC_env_shellopts, AC_env_bashopts}
ImportFilters == {AC_any, AC_short}

NextEnv ==
  \/ \E name \in Names, why \in Accessors, v \in Values : SetValue(name, why, v)
  \/ \E d \in Defs : Unload(d)
  \/ \E which \in VarNames : Synchronize(which)
  \/ Startup
  \/ \E which \in VarNames, why \in ImportContexts, filter \in ImportFilters :
       Import(which, why, filter)

SpecEnv == InitEnv /\ [][NextEnv]_vars

NextList ==
  \/ \E why \in ListContexts, m \in ListMasks, s \in ListStyles : ListAll(why, m, s)
  \/ \E why \in ListContexts, m \in ListMasks, s \in ListStyles :
       ListAllAborted(why, m, s)
  \/ \E d \in Defs, m \in ListMasks, s \in ListStyles : ShowOneUnless(d, AC_any, m, s)
  \/ \E fn \in HideFuncs : CountOptions(fn)
  \/ \E fn \in HideFuncs : BeginIter(fn)
  \/ GetIter

SpecList == InitList /\ [][NextList]_vars

\* an iteration over a registry that modules are unloaded from meanwhile;
\* the values of the options play no part
InitIter ==
  /\ InitList
  /\ \A d \in Defs : store[d] = DefTable[d].store0

NextIter ==
  \/ \E fn \in HideFuncs : BeginIter(fn)
  \/ GetIter
  \/ \E d \in Defs : DeregisterDuringIter(d)

SpecIter == InitIter /\ [][NextIter]_vars

\* registrations and deregistrations, the loop of deregister_name on record
NextDereg ==
  \/ \E d \in Defs : Register(d)
  \/ \E d \in Defs : DeregisterExamined(d)

SpecDereg == Init /\ [][NextDereg]_vars

NextSetters ==
  \E why \in Accessors, v \in Requests : SetFlagOption(why, v)

SpecSetters == InitSetters /\ [][NextSetters]_vars

\* the accessors with which options are set inside a scope
ScopeContexts == {AC_short, AC_argv, AC_unload}

NextFlags ==
  \/ \E d \in Defs : UnloadFirst(d)
  \/ \E c \in {0, 1}, s \in {0, 1} : WhichSetFlags(c, s)
  \/ GetCurrentFlags
  \/ \E letter \in Letters, why \in ScopeContexts, v \in Values :
       SetInScope(letter, why, v)
  \/ SetCurrentFlags

SpecFlags == InitFlags /\ [][NextFlags]_vars

\* a scope that modules are loaded and unloaded in: the flags are saved,
\* options are registered or deregistered, the flags are restored
NextScope ==
  \/ GetCurrentFlags
  \/ \E d \in Defs : RegisterInScope(d)
  \/ \E d \in Defs : DeregisterInScope(d)
  \/ SetCurrentFlags
  \/ SetCurrentFlagsOverrun

SpecScope == InitFlags /\ [][NextScope]_vars

NextRes ==
  \/ ResToEx
  \/ TestResult

SpecRes == InitRes /\ [][NextRes]_vars

(***************************************************************************)
(* Vocabulary of the properties.                                           *)
(***************************************************************************)
HasName(d) == DefTable[d].hasName
HasLetter(d) == DefTable[d].letter # 0
NameOf(d) == DefTable[d].name
LetterOf(d) == DefTable[d].letter

Collide(a, b) ==
  \/ HasName(a) /\ HasName(b) /\ NameOf(a) = NameOf(b)
  \/ HasLetter(a) /\ HasLetter(b) /\ LetterOf(a) = LetterOf(b)

\* d is handed out by a lookup by its name / by its letter
FoundByName(d) == HasName(d) /\ find_option(NameOf(d), OrderedOpts) = d
FoundByLetter(d) == HasLetter(d) /\ find_short_option(LetterOf(d), ShortOpts) = d

LiveLetters == {LetterOf(d) : d \in {e \in live : HasLetter(e)}}

UserContexts == {AC_any, AC_short, AC_set_o, AC_shopt}
StartupContexts == {AC_argv, AC_env_shellopts, AC_env_bashopts}

\* the last set_opt_value went through the default policy
DefaultSet == lastSet.op = "set" /\ ~optdef.set_func

(***************************************************************************)
(* C1.  Registering a definition that is already registered returns        *)
(* Unchanged and changes neither the number of registered definitions nor  *)
(* the letter table, whether the definition has a name only, a letter only *)
(* or both.                                                                *)
(***************************************************************************)
C1_ReRegisterUnchanged ==
  (last.op = "register" /\ last.wasLive)
    => /\ last.res = "Unchanged"
       /\ ~last.changedNames
       /\ ~last.changedLetters

(***************************************************************************)
(* C2.  When a registered definition A holds the name or the letter of a   *)
(* different definition B, register_option(B) returns Duplicate and        *)
(* changes nothing: A is still found by its name and by its letter, and B  *)
(* is found neither by its name nor by its letter.                         *)
(***************************************************************************)
C2_DuplicateLeavesOriginal ==
  \A A \in live :
    (last.op = "register" /\ A # last.def /\ Collide(A, last.def))
      => /\ last.res = "Duplicate"
         /\ ~last.changedNames
         /\ ~last.changedLetters
         /\ HasName(A) => FoundByName(A)
         /\ HasLetter(A) => FoundByLetter(A)
         /\ ~FoundByName(last.def)
         /\ ~FoundByLetter(last.def)

(***************************************************************************)
(* C3.  Every registered definition with a name is what find_option        *)
(* returns for that name, whatever else has been registered or             *)
(* deregistered; and when deregister_option(d) has returned for a          *)
(* registered d, find_option returns no definition for the name of d (and  *)
(* it never returns a d that has just been deregistered).                  *)
(***************************************************************************)
C3_FindByName ==
  /\ \A d \in live : HasName(d) => find_option(NameOf(d), OrderedOpts) = d
  /\ (last.op = "deregister" /\ HasName(last.def))
       => /\ find_option(NameOf(last.def), OrderedOpts) # last.def
          /\ last.wasLive => find_option(NameOf(last.def), OrderedOpts) = NULL

\* a registered named definition has just been deregistered from among
\* other registered named definitions, one of them sorting after it
C3_Witness ==
  /\ last.op = "deregister" /\ last.wasLive /\ HasName(last.def)
  /\ Cardinality({d \in live : HasName(d)}) >= 2
  /\ \E d \in live : HasName(d) /\ strcmp(NameOf(last.def), NameOf(d)) < 0

(***************************************************************************)
(* C4.  When deregister_option(d) has returned, the letter table no longer *)
(* refers to d: find_short_option(d.letter) does not return d.             *)
(***************************************************************************)
C4_LetterSlotCleared ==
  (last.op = "deregister" /\ HasLetter(last.def))
    => find_short_option(LetterOf(last.def), ShortOpts) # last.def

(***************************************************************************)
(* C5.  get_short_opt_names returns exactly the letters of the currently   *)
(* registered definitions, in ascending order and without duplicates,      *)
(* after any sequence of registrations and deregistrations.                *)
(***************************************************************************)
C5_LettersAreCurrent ==
  last.op = "names" => last.names = ascending(LiveLetters)

(***************************************************************************)
(* C6.  A name and a letter are free once their holder is deregistered:    *)
(* registering a definition B whose name and letter are held by no         *)
(* registered definition returns OK, and B is then found by its name and   *)
(* by its letter.                                                          *)
(***************************************************************************)
C6_FreedForReuse ==
  (/\ last.op = "register" /\ ~last.wasLive
   /\ \A A \in live \ {last.def} : ~Collide(A, last.def))
    => /\ last.res = "OK"
       /\ HasName(last.def) => FoundByName(last.def)
       /\ HasLetter(last.def) => FoundByLetter(last.def)

(***************************************************************************)
(* C7.  No two registered definitions share a name or share a letter, no   *)
(* two slots of the name sequence carry the same name, and no definition   *)
(* occupies more than one slot of the name sequence or more than one slot  *)
(* of the letter table.                                                    *)
(***************************************************************************)
C7_NamesAndLettersUnique ==
  /\ \A a \in live : \A b \in live \ {a} : ~Collide(a, b)
  /\ \A i \in 0 .. OrderedOpts.len - 1 : \A j \in 0 .. OrderedOpts.len - 1 :
       i # j => NameOf(Slot(OrderedOpts, i)) # NameOf(Slot(OrderedOpts, j))
  /\ \A d \in Defs :
       /\ Cardinality({i \in 0 .. OrderedOpts.len - 1 : Slot(OrderedOpts, i) = d}) <= 1
       /\ Cardinality({c \in 0 .. CHAR_MAX : MapAt(ShortOpts.map, c) = d}) <= 1

\* three definitions are registered and a fourth, which takes the letter of
\* one of them, has just been refused
C7_Witness ==
  /\ Cardinality(live) >= 3
  /\ last.op = "register" /\ last.res = "Duplicate"
  /\ \E a \in live : HasLetter(a) /\ LetterOf(a) = LetterOf(last.def)

C9_ForbidChangeFromUser ==
  (/\ DefaultSet /\ optdef.forbid_change /\ ~optdef.readonly
   /\ lastSet.why \in UserContexts)
    => /\ lastSet.res = IF lastSet.new_value = lastSet.old_value THEN "Unchanged"
                        ELSE IF optdef.ignore_change THEN "Ignored"
                        ELSE "Forbidden"
       /\ cell = lastSet.before

\* a forbid_change, ignore_change definition was asked through shopt for
\* the value it holds
C9_Witness ==
  /\ DefaultSet /\ optdef.forbid_change /\ optdef.ignore_change
  /\ ~optdef.readonly /\ optdef.store /\ ~optdef.get_func
  /\ lastSet.why = AC_shopt
  /\ lastSet.new_value = cell
  /\ lastSet.res = "Unchanged"

(***************************************************************************)
(* C10.  A forbid_change definition (with a store; not readonly, not       *)
(* ignore_change, no set_func) can be set at startup: from argv,           *)
(* env_shellopts and env_bashopts a value other than the current one is    *)
(* written to the storage cell and the answer is OK.                       *)
(***************************************************************************)
C10_ForbidChangeSetAtStartup ==
  (/\ DefaultSet /\ optdef.forbid_change /\ optdef.store
   /\ ~optdef.readonly /\ ~optdef.ignore_change
   /\ lastSet.why \in StartupContexts
   /\ lastSet.new_value # lastSet.old_value)
    => lastSet.res = "OK" /\ cell = lastSet.new_value

(***************************************************************************)
(* C11.  A forbid_change definition with a store and no set_func, asked    *)
(* from unwind or from unload, always takes the value: whatever its        *)
(* readonly and ignore_change bits, the answer is OK and the storage cell  *)
(* holds the requested value afterwards.                                   *)
(***************************************************************************)
C11_PrivilegedAlwaysApplies ==
  (/\ DefaultSet /\ optdef.forbid_change /\ optdef.store
   /\ lastSet.why \in {AC_unwind, AC_unload})
    => lastSet.res = "OK" /\ cell = lastSet.new_value

C13_SetFuncDecides ==
  (lastSet.op = "set" /\ optdef.set_func)
    => /\ lastSet.res = call.res
       /\ cell = IF call.writes THEN call.new_value ELSE lastSet.before
       /\ lastSet.shellopts <=> (call.res = "OK" /\ optdef.adjust_shellopts)
       /\ lastSet.bashopts <=> (call.res = "OK" /\ optdef.adjust_bashopts)

\* the setter of a readonly definition marked for SHELLOPTS changed nothing
\* and said so
C13_Witness ==
  /\ lastSet.op = "set" /\ optdef.set_func
  /\ optdef.readonly /\ optdef.adjust_shellopts
  /\ lastSet.res = "Unchanged"
  /\ ~lastSet.shellopts

(***************************************************************************)
(* C15.  res_to_ex answers for every result: OK, Unchanged and Ignored     *)
(* give EXECUTION_SUCCESS, NotFound and ReadOnly give EX_BADUSAGE,         *)
(* Forbidden and BadValue give EX_BADASSIGN, and every value below         *)
(* Result_OK or above the last member of the enumeration gives -1, which   *)
(* is not EXECUTION_SUCCESS.                                               *)
(***************************************************************************)
C15_ResToEx ==
  status.done
    => /\ status.r \in {Result_OK, Result_Unchanged, Result_Ignored}
            => status.ex = EXECUTION_SUCCESS
       /\ status.r \in {Result_NotFound, Result_ReadOnly}
            => status.ex = EX_BADUSAGE
       /\ status.r \in {Result_Forbidden, Result_BadValue}
            => status.ex = EX_BADASSIGN
       /\ (status.r < Result_OK \/ status.r > Result_Duplicate)
            => status.ex = -1 /\ status.ex # EXECUTION_SUCCESS

\* the value just below Result_OK, an index inside the array, was converted
C15_Witness ==
  status.done /\ status.r = Result_OK - 1 /\ status.ex = -1

(***************************************************************************)
(* C16.  get_opt_value returns what get_func returns when there is a       *)
(* get_func, else the content of the store when there is a store, else     *)
(* OPTION_INVALID_VALUE; and it returns OPTION_INVALID_VALUE only for an   *)
(* absent definition or for one with neither get_func nor store, no set    *)
(* being able to place that value in a store.                              *)
(***************************************************************************)
C16_GetOptValue ==
  /\ lastSet.op = "get"
       => /\ lastSet.value = IF optdef.get_func THEN call.got
                             ELSE IF optdef.store THEN cell
                             ELSE OPTION_INVALID_VALUE
          /\ lastSet.value = OPTION_INVALID_VALUE
               => ~optdef.get_func /\ ~optdef.store
  /\ lastSet.op = "get_null" => lastSet.value = OPTION_INVALID_VALUE

(***************************************************************************)
(* Vocabulary of the properties of the environment synchroniser.           *)
(***************************************************************************)
\* the names of the definitions of S, ascending
RECURSIVE SortedNames(_)
SortedNames(S) ==
  IF S = {} THEN <<>>
  ELSE LET d == CHOOSE x \in S : \A y \in S : strcmp(NameOf(x), NameOf(y)) <= 0
       IN  <<NameOf(d)>> \o SortedNames(S \ {d})

\* the names of a sequence with one colon between neighbours
RECURSIVE JoinColon(_)
JoinColon(names) ==
  IF names = <<>> THEN <<>>
  ELSE IF Len(names) = 1 THEN Head(names)
  ELSE Head(names) \o <<58>> \o JoinColon(Tail(names))

VarValue(which) == IF which = "SHELLOPTS" THEN SHELLOPTS ELSE BASHOPTS
FilterOf(which) == IF which = "SHELLOPTS" THEN AC_set_o ELSE AC_shopt
MarkedFor(which, d) ==
  IF which = "SHELLOPTS" THEN DefTable[d].adjust_shellopts
  ELSE DefTable[d].adjust_bashopts

\* the registered definitions that belong in the variable
LiveOn(which) ==
  {d \in live : HasName(d) /\ ~hidden_for(FilterOf(which), d) /\ store[d] > 0}

\* the variable is what its definition says
UpToDate(which) == VarValue(which) = JoinColon(SortedNames(LiveOn(which)))

\* name is one of the pieces of text between colons
Lists(text, name) ==
  \E i \in 0 .. Len(text) - Len(name) :
    /\ SubSeq(text, i + 1, i + Len(name)) = name
    /\ i = 0 \/ text[i] = 58
    /\ i + Len(name) = Len(text) \/ text[i + Len(name) + 1] = 58

Unrestricted(d) ==
  ~Policy(d).readonly /\ ~Policy(d).forbid_change /\ ~Policy(d).ignore_change

(***************************************************************************)
(* C14.  set_opt_value on a registered definition without restrictions,    *)
(* with a store and no set_func, answers OK for every context and value    *)
(* and leaves the value in the store; SHELLOPTS / BASHOPTS is regenerated  *)
(* exactly when the definition is marked for it and the value differs from *)
(* the previous one, and it is regenerated after the write: when           *)
(* set_opt_value returns the variable is up to date and lists the name of  *)
(* the definition exactly when the new value is on.                        *)
(***************************************************************************)
C14_WriteThenSynchronize ==
  (last.op = "set" /\ Unrestricted(last.def))
    => /\ last.res = "OK"
       /\ store[last.def] = lastSet.new_value
       /\ \A which \in VarNames :
            LET ran == IF which = "SHELLOPTS" THEN lastSet.shellopts
                       ELSE lastSet.bashopts
            IN  /\ ran <=> (MarkedFor(which, last.def)
                            /\ lastSet.new_value # lastSet.before)
                /\ ran => /\ UpToDate(which)
                          /\ ~hidden_for(FilterOf(which), last.def)
                               => (Lists(VarValue(which), NameOf(last.def))
                                     <=> lastSet.new_value > 0)

\* D1, which was off, has been switched on through its letter and
\* SHELLOPTS lists it
C14_Witness ==
  /\ last.op = "set" /\ last.def = "D1" /\ lastSet.why = AC_short
  /\ lastSet.before = 0 /\ lastSet.new_value = MaxValue
  /\ lastSet.shellopts
  /\ Lists(SHELLOPTS, NameOf("D1"))

(***************************************************************************)
(* C17.  set_env_from_options binds the variable to the names of exactly   *)
(* the registered definitions that pass the filter of the variable and     *)
(* whose value is greater than 0, in ascending order of name, with one     *)
(* colon between neighbours and none before the first or after the last;   *)
(* with no such definition the value is the empty string.                  *)
(***************************************************************************)
C17_VariableListsOnOptions ==
  last.op = "sync"
    => /\ UpToDate(env.which)
       /\ LiveOn(env.which) = {} => VarValue(env.which) = <<>>
       /\ VarValue(env.which) # <<>>
            => /\ Head(VarValue(env.which)) # 58
               /\ VarValue(env.which)[Len(VarValue(env.which))] # 58

\* BASHOPTS has been generated with D2 ("a") and D4 ("ab") on
C17_Witness ==
  /\ last.op = "sync" /\ env.which = "BASHOPTS"
  /\ {"D2", "D4"} \subseteq LiveOn("BASHOPTS")
  /\ BASHOPTS = <<97, 58, 97, 98>>

(***************************************************************************)
(* C18.  Round trip: a variable is generated while the options of S are    *)
(* on, a shell starts with every option off and that variable in its       *)
(* environment, and get_options_from_env is run on the variable (with the  *)
(* accessor of that variable and no filter); then exactly the options of S *)
(* are on.                                                                 *)
(***************************************************************************)
C18_RoundTrip ==
  (/\ env.phase = "imported" /\ env.read = env.which /\ env.filter = AC_any
   /\ env.why = IF env.which = "SHELLOPTS" THEN AC_env_shellopts
                ELSE AC_env_bashopts)
    => \A d \in Defs : store[d] > 0 <=> d \in env.on

(***************************************************************************)
(* C19.  When deregister_option(d) returns for a registered d that is on   *)
(* and marked adjust_shellopts / adjust_bashopts, the variable d is marked *)
(* for has been regenerated from the registry without d: it is up to date  *)
(* and does not list the name of d.                                        *)
(***************************************************************************)
C19_DeregisterRegenerates ==
  (/\ last.op = "deregister" /\ last.wasLive /\ HasName(last.def)
   /\ store[last.def] # 0)
    => \A which \in VarNames :
         MarkedFor(which, last.def)
           => UpToDate(which) /\ ~Lists(VarValue(which), NameOf(last.def))

\* D2 ("a") was on and has been deregistered; BASHOPTS still lists D4
\* ("ab")
C19_Witness ==
  /\ last.op = "deregister" /\ last.def = "D2" /\ last.wasLive
  /\ store["D2"] > 0
  /\ BASHOPTS = <<97, 98>>

(***************************************************************************)
(* C20.  get_options_from_env changes the value of an option only when     *)
(* the option is named in the text it read, is registered, belongs to the  *)
(* subset of the accessor and is not excluded by the filter of the caller, *)
(* and then the new value is the value true, accepted by set_opt_value for *)
(* that accessor; every other option keeps its value.  A name that is not  *)
(* registered does not end the scan: every name of the text that could be *)
(* set has been set.                                                       *)
(***************************************************************************)
C20_ImportFrame ==
  last.op = "import"
    => \A d \in Defs :
         LET settable ==
               /\ d \in live /\ HasName(d) /\ Lists(env.text, NameOf(d))
               /\ ~hidden_for(env.why, d) /\ ~hidden_for(env.filter, d)
               /\ default_policy(Policy(d), env.why, 1, env.before[d]) = "OK"
             read == env.attrs[env.read].imported
                     /\ env.attrs[env.read].kind # "scalar"
         IN  /\ store[d] # env.before[d] => settable /\ store[d] = 1
             /\ (read /\ settable) => store[d] = 1

\* "zz:ab:a" was read for BASHOPTS: zz is no option, and D4 ("ab"), which
\* was off, is on
C20_Witness ==
  /\ last.op = "import" /\ env.why = AC_env_bashopts
  /\ env.text = <<122, 122, 58, 97, 98, 58, 97>>
  /\ env.before["D4"] = 0 /\ store["D4"] = 1

(***************************************************************************)
(* C24.  deregister_option(B) for a B that is not registered (it was       *)
(* refused as a Duplicate, or was never offered, or is already gone)       *)
(* removes nothing that belongs to another definition: the name sequence   *)
(* and the letter table are as before, so the count is unchanged, and      *)
(* every registered definition, the holder of B's name or letter among     *)
(* them, is still found by its name and by its letter.                     *)
(***************************************************************************)
C24_DeregisterUnregisteredIsSafe ==
  (last.op = "deregister" /\ ~last.wasLive)
    => /\ ~last.changedNames
       /\ ~last.changedLetters
       /\ \A A \in live :
            /\ HasName(A) => FoundByName(A)
            /\ HasLetter(A) => FoundByLetter(A)

\* an unregistered definition has just been deregistered while a registered
\* one holds its name and another (or the same) holds its letter
C24_Witness ==
  /\ last.op = "deregister" /\ ~last.wasLive
  /\ \E A \in live : HasName(A) /\ HasName(last.def) /\ NameOf(A) = NameOf(last.def)
  /\ \E A \in live : HasLetter(A) /\ LetterOf(A) = LetterOf(last.def)

(***************************************************************************)
(* C25.  In every reachable state the entries 0 .. len-1 of the name       *)
(* sequence are non-null definitions with a name, in strictly ascending    *)
(* strcmp order; and search_options(n) returns a match with the index of   *)
(* the entry named n when there is one, and otherwise no match with the    *)
(* one index at which n can be inserted with the order kept.               *)
(***************************************************************************)
\* names to look for: those of the definitions, and "", "aa", "c"
ProbeNames == Names \cup {<<>>, <<97, 97>>, <<99>>}

C25_SortedAndSearchable ==
  LET len == OrderedOpts.len
      name(i) == NameOf(Slot(OrderedOpts, i))
  IN  /\ \A i \in 0 .. len - 1 :
           Slot(OrderedOpts, i) \in Defs /\ HasName(Slot(OrderedOpts, i))
      /\ \A i \in 0 .. len - 2 : strcmp(name(i), name(i + 1)) < 0
      /\ \A n \in ProbeNames :
           LET S == search_options(n, OrderedOpts)
           IN  IF \E i \in 0 .. len - 1 : name(i) = n
                 THEN S.match /\ S.index \in 0 .. len - 1 /\ name(S.index) = n
                 ELSE /\ ~S.match
                      /\ S.index \in 0 .. len
                      /\ \A i \in 0 .. len - 1 :
                           IF i < S.index THEN strcmp(name(i), n) < 0
                           ELSE strcmp(n, name(i)) < 0

\* three names are in the sequence, the last one registered sorts between
\* the other two
C25_Witness ==
  /\ OrderedOpts.len = 3
  /\ last.op = "register" /\ last.res = "OK" /\ last.changedNames
  /\ Slot(OrderedOpts, 1) = last.def

(***************************************************************************)
(* C21.  list_all_options(context, mask, style) emits exactly one line,    *)
(* in registry order, for each registered definition that passes the       *)
(* filter of the context, has the kind of name the style needs (a letter   *)
(* for the short style, a name otherwise) and whose value's bit is not set *)
(* in mask; and a line shows its option as on iff the value is non-zero.   *)
(***************************************************************************)
\* the registered definitions that the call is to list
Listable(why, mask, style) ==
  {d \in live :
     /\ ~hides(hide_check_for(why), d)
     /\ IF style = DS_short THEN HasLetter(d) ELSE HasName(d)
     /\ ~value_bit(mask, store[d])}

C21_ListsEachQualifyingOption ==
  out.op = "list"
    => /\ {out.lines[i].def : i \in 1 .. Len(out.lines)}
            = Listable(out.why, out.mask, out.style)
       /\ Len(out.lines) = Cardinality(Listable(out.why, out.mask, out.style))
       /\ \A i \in 1 .. Len(out.lines) : \A j \in 1 .. Len(out.lines) :
            i < j => \E a \in 0 .. OrderedOpts.len - 1 :
                       \E b \in 0 .. OrderedOpts.len - 1 :
                         /\ a < b
                         /\ Slot(OrderedOpts, a) = out.lines[i].def
                         /\ Slot(OrderedOpts, b) = out.lines[j].def
       /\ \A i \in 1 .. Len(out.lines) :
            out.lines[i].on <=> store[out.lines[i].def] # 0

(***************************************************************************)
(* C22.  A definition registered with a letter and no name is part of the  *)
(* ordered sequence: count_options() and count_options_func(NULL) count    *)
(* it, and an iteration without a filter yields it.                        *)
(***************************************************************************)
C22_LetterOnlyIsInSequence ==
  \A d \in live :
    (~HasName(d) /\ HasLetter(d))
      => /\ (out.op = "count" /\ out.fn = NoFunc) => out.count = Cardinality(live)
         /\ (out.op = "iter" /\ out.fn = NoFunc /\ out.nulls > 0)
              => \E i \in 1 .. Len(out.yielded) : out.yielded[i] = d
         /\ d \in Registered

(***************************************************************************)
(* C23.  With nothing registered or deregistered meanwhile,                *)
(* begin_iter_opts(f) and repeated get_iter_opts yield the definitions of  *)
(* the ordered sequence for which f is false, each once and in the order   *)
(* of the sequence, then NULL, and NULL again on further calls; the number *)
(* yielded is count_options_func(f); and a fresh begin_iter_opts starts    *)
(* over from the first definition.                                         *)
(***************************************************************************)
\* the ordered sequence without the definitions that fn hides
Unhidden(fn) ==
  SelectSeq(SubSeq(OrderedOpts.defs, 1, OrderedOpts.len), LAMBDA d : ~hides(fn, d))

C23_IterationYieldsEachOnce ==
  out.op = "iter"
    => /\ Len(out.yielded) <= Len(Unhidden(out.fn))
       /\ out.yielded = SubSeq(Unhidden(out.fn), 1, Len(out.yielded))
       /\ \A i \in 1 .. Len(out.yielded) : \A j \in 1 .. Len(out.yielded) :
            i # j => out.yielded[i] # out.yielded[j]
       /\ out.nulls > 0
            => /\ out.yielded = Unhidden(out.fn)
               /\ Len(out.yielded) = count_options_func(out.fn, OrderedOpts)

\* a second iteration, with a filter that hides some and not all of three
\* definitions, has come to its end and NULL has been returned twice
C23_Witness ==
  /\ out.op = "iter" /\ out.begins = MaxBegins /\ out.nulls = MaxNulls
  /\ OrderedOpts.len = 3
  /\ Len(out.yielded) \in {1, 2}
  /\ hides(out.fn, Slot(OrderedOpts, 0)) \/ hides(out.fn, Slot(OrderedOpts, 1))

(***************************************************************************)
(* C26.  Between registry calls the variables agree with the options:      *)
(* after any sequence of register_option, set_opt_value (default policy)   *)
(* and deregister_option, BASHOPTS (resp. SHELLOPTS) lists exactly the     *)
(* registered definitions marked adjust_bashopts (resp. adjust_shellopts)  *)
(* whose value is on, a definition whose storage was already on when it    *)
(* was registered among them.                                              *)
(***************************************************************************)
C26_VariablesAlwaysConsistent ==
  last.op \in {"register", "deregister", "set"}
    => UpToDate("SHELLOPTS") /\ UpToDate("BASHOPTS")

(***************************************************************************)
(* C27.  The setter of restricted lets the unwinding of a scope undo       *)
(* `set -r`: with restricted on, set_opt_value(restricted, unwind, false)  *)
(* returns OK and turns restricted off, while the same request from a user *)
(* context (short, set_o, shopt) returns Forbidden and leaves it on.       *)
(***************************************************************************)
C27_UnwindUndoesRestricted ==
  (/\ lastSet.op = "set" /\ optdef = OPTDEF_restricted
   /\ lastSet.before # 0 /\ lastSet.new_value = 0)
    => /\ lastSet.why = AC_unwind => (lastSet.res = "OK" /\ cell = 0)
       /\ lastSet.why \in {AC_short, AC_set_o, AC_shopt}
            => (lastSet.res = "Forbidden" /\ cell = lastSet.before)

C29_NoexecStaysOffWhenInteractive ==
  (optdef = OPTDEF_read_but_dont_execute /\ shell.interactive_shell)
    => /\ (lastSet.op = "set" /\ lastSet.new_value # 0)
            => /\ lastSet.res = "Ignored"
               /\ cell = lastSet.before
               /\ ~lastSet.shellopts
       /\ shell.first = 0 => cell = 0
       /\ (lastSet.op = "set" /\ lastSet.new_value = 0) => lastSet.res = "OK"

\* two calls have been made on noexec in an interactive shell where it was
\* off, the last of them to turn it on on behalf of an unloading module
C29_Witness ==
  /\ optdef = OPTDEF_read_but_dont_execute /\ shell.interactive_shell
  /\ shell.first = 0 /\ shell.calls = MaxCalls
  /\ lastSet.op = "set" /\ lastSet.new_value = 1 /\ lastSet.why = AC_unload

(***************************************************************************)
(* C30.  which_set_flags returns exactly the letters of the registered     *)
(* options whose value is non-zero, in ascending order and each once,      *)
(* followed by 'c' if want_pending_command is set and then 's' if          *)
(* read_from_stdin is set; the letter of an option that is off or is not   *)
(* registered is not in it.                                                *)
(***************************************************************************)
C30_SetFlagsAreRegisteredAndOn ==
  out.op = "flags"
    => out.lines
         = ascending({LetterOf(d) : d \in {e \in live : HasLetter(e) /\ store[e] # 0}})
             \o (IF shell.want_pending_command # 0 THEN <<99>> ELSE <<>>)
             \o (IF shell.read_from_stdin # 0 THEN <<115>> ELSE <<>>)

(***************************************************************************)
(* C31.  show_one_option_unless_value(d, ctx, mask, style) prints the      *)
(* option unless its value is masked: the line is emitted exactly when the *)
(* bit of d's value is not set in mask, which is what hide_value_mask      *)
(* means to list_all_options.                                              *)
(***************************************************************************)
C31_ShownUnlessMasked ==
  out.op = "show"
    => (out.lines # <<>> <=> ~value_bit(out.mask, store[out.def]))

(***************************************************************************)
(* C32.  The length of OrderedOpts never exceeds its capacity.  A          *)
(* register_option that gets as far as inserting grows the vector first    *)
(* whenever len >= cap; the capacity changes in no other way, a growth     *)
(* gives a capacity of at least twice the old one and at least len + 1,    *)
(* and after a growth every slot from len up to the capacity is null.      *)
(***************************************************************************)
C32_GrowthStep ==
  /\ OrderedOpts'.len <= OrderedOpts'.cap
  /\ (/\ last'.op = "register" /\ last'.res = "OK"
      /\ last' # last \/ OrderedOpts' # OrderedOpts
      /\ OrderedOpts.len >= OrderedOpts.cap) => OrderedOpts'.cap > OrderedOpts.cap
  /\ OrderedOpts'.cap # OrderedOpts.cap
       => /\ last'.op = "register"
          /\ OrderedOpts.len >= OrderedOpts.cap
          /\ OrderedOpts'.cap >= 2 * OrderedOpts.cap
          /\ OrderedOpts'.cap >= OrderedOpts.len + 1
          /\ \A i \in OrderedOpts'.len .. OrderedOpts'.cap - 1 :
                Slot(OrderedOpts', i) = NULL

C32_VectorGrowth ==
  [](OrderedOpts.len <= OrderedOpts.cap) /\ [][C32_GrowthStep]_vars

\* the third growth: from two slots to seven, the newcomer in the third
C32_Witness ==
  /\ last.op = "register" /\ last.res = "OK"
  /\ OrderedOpts.cap = 7 /\ OrderedOpts.len = 3

(***************************************************************************)
(* C33.  With no letter in the table, get_short_opt_names terminates and   *)
(* returns the empty string: the scan for the lowest letter stops at the   *)
(* end of the table, its counter neither wrapping nor indexing outside the *)
(* table.                                                                  *)
(***************************************************************************)
C33_EmptyScanStops ==
  (ShortOpts.enumeration.null /\ scan_is_undefined(ShortOpts)) => ~fault

(***************************************************************************)
(* C36.  set_opt_value never reads through an absent store: on a           *)
(* definition with neither store nor set_func, whatever its adjust bits, a *)
(* set that passes the policy returns OK and no read of the store is made. *)
(***************************************************************************)
C36_NoReadThroughAbsentStore ==
  (/\ ~optdef.set_func /\ ~optdef.store
   /\ default_policy(optdef, call.why, call.new_value,
                     get_opt_value(optdef, cell, call.got)) = "OK")
    => ~fault /\ (lastSet.op = "set" => lastSet.res = "OK")

\* the members of enum op_result_e
ResultMembers == Result_OK .. Result_Duplicate

(***************************************************************************)
(* C34.  GoodResult and res_to_ex agree on every member of the Result      *)
(* enumeration: GoodResult (r) holds exactly when res_to_ex (r) is         *)
(* EXECUTION_SUCCESS, which is for OK, Unchanged and Ignored, and          *)
(* BadResult (r) holds exactly when res_to_ex (r) is not.                  *)
(***************************************************************************)
C34_GoodResultAgreesWithExit ==
  (status.done /\ status.tested /\ status.r \in ResultMembers)
    => /\ status.good <=> status.ex = EXECUTION_SUCCESS
       /\ status.good <=> status.r \in {Result_OK, Result_Unchanged, Result_Ignored}
       /\ status.bad <=> status.ex # EXECUTION_SUCCESS

\* the last of the good results was tested and converted
C34_Witness ==
  /\ status.done /\ status.tested /\ status.r = Result_Ignored
  /\ status.good /\ status.ex = EXECUTION_SUCCESS

(***************************************************************************)
(* C35.  res_to_ex (Result (Duplicate)) is -1: result_to_ex_map has no     *)
(* entry for Duplicate.                                                    *)
(***************************************************************************)
C35_DuplicateHasNoExit ==
  (status.done /\ status.r = Result_Duplicate) => status.ex = -1

C35_Witness ==
  status.done /\ status.r = Result_Duplicate /\ status.ex = -1

(***************************************************************************)
(* C37.  When definitions are deregistered between two get_iter_opts calls *)
(* of one iteration, every slot a call reads lies below the length the     *)
(* vector has at that call, and the definition it yields is registered at  *)
(* that moment.                                                            *)
(***************************************************************************)
C37_IterStep ==
  (out.op = "iter" /\ out'.begins = out.begins /\ out' # out)
    => /\ \A i \in out.it.position .. out'.it.position - 1 : i < OrderedOpts.len
       /\ Len(out'.yielded) > Len(out.yielded)
            => LET d == out'.yielded[Len(out'.yielded)]
               IN  /\ d \in live
                   /\ d = Slot(OrderedOpts, out'.it.position - 1)

C37_IterSurvivesDeregister == [][C37_IterStep]_vars

\* the first definition was yielded and then deregistered; the next call
\* yielded from the second slot, passing over the definition that had moved
\* into the first
C37_Witness ==
  /\ out.op = "iter" /\ out.fn = NoFunc /\ last.op = "deregister"
  /\ Len(out.yielded) = 2 /\ out.it.position = 2 /\ OrderedOpts.len >= 2
  /\ out.yielded[1] \notin live
  /\ out.yielded[2] = Slot(OrderedOpts, 1)
  /\ Slot(OrderedOpts, 0) # out.yielded[1] /\ Slot(OrderedOpts, 0) # out.yielded[2]

(***************************************************************************)
(* C38.  set_current_flags (b), b coming from an earlier                   *)
(* get_current_flags (), assigns each saved value to the option it was     *)
(* read from, also when an option with a letter was registered or          *)
(* deregistered between the two calls.                                     *)
(***************************************************************************)
C38_RestoredToSameOption ==
  shell.phase = "restored"
    => \A i \in 1 .. Len(shell.saved) :
         shell.saved[i] # NULL => store[shell.saved[i]] = shell.bitmap[i]

\* the slots 0 .. len-1 of a vector, as a sequence
Entries(oo) == [i \in 1 .. oo.len |-> oo.defs[i]]

(***************************************************************************)
(* C39.  deregister_name terminates in every state of the registry.  It    *)
(* removes every occurrence of the definition, keeps the others in their   *)
(* order, and examines each slot once: the entry that moves into the slot  *)
(* of a removed one is examined next, also when that slot is index 0,      *)
(* where the unsigned index is decremented below zero and incremented      *)
(* again.                                                                  *)
(***************************************************************************)
C39_DeregisterStep ==
  (last'.op = "deregister" /\ last' # last)
    => /\ last'.names = Entries(OrderedOpts)
       /\ Entries(OrderedOpts') = SelectSeq(Entries(OrderedOpts),
                                            LAMBDA d : d # last'.def)
       /\ \A i \in 1 .. OrderedOpts'.len : OrderedOpts'.defs[i] # last'.def

C39_DeregisterNameExaminesOnce == [][C39_DeregisterStep]_vars

\* the entry at index 0 of three was removed; the two that moved down were
\* examined after it
C39_Witness ==
  /\ last.op = "deregister" /\ last.changedNames
  /\ Len(last.names) = 3 /\ last.names[1] = last.def
  /\ OrderedOpts.len = 2
  /\ Slot(OrderedOpts, 0) = last.names[2] /\ Slot(OrderedOpts, 1) = last.names[3]

====
